---- MODULE Spec2Model ----
(***************************************************************************)
(* State-machine model of the nonprofit-verify service: the EIN utilities, *)
(* the Redis-backed cache and quota ledger, the aggregation                *)
(* (verify_organization) and the three lookup entrypoints                  *)
(* (verify_nonprofit, verify_batch, public_verify).                        *)
(*                                                                         *)
(* Python strings are sequences of one-character strings; Python None is   *)
(* the empty tuple; dicts and pydantic models are records.  Every action   *)
(* is one network or Redis operation together with the local code that     *)
(* runs after it up to the next await.                                     *)
(***************************************************************************)
EXTENDS Integers, Sequences, FiniteSets, TLC

VARIABLES
    cache,      \* Redis keys verify:<digits>: key -> [val, ttl]
    quota,      \* Redis counters ratelimit:* and public_ratelimit:*: key -> [val, ttl]
    now,        \* the clock, in seconds
    ticks,      \* number of clock advances so far
    pc,         \* pc[p]: position of request p in its handler
    req,        \* req[p]: the request p serves: [kind, eins]
    rlcall,     \* rlcall[p]: locals of p's rate-limit call: [fn, key, count, new_total]
    calls,      \* calls[p]: number of ledger calls p has started (ledger workload)
    batch,      \* batch[p]: locals of verify_batch: normalized_map, unique_eins
    task,       \* task[p]: per lookup of request p (one per unique EIN): locals of
                \*          the lookup and of verify_organization
    response,   \* response[p]: what p returned to its caller
    accepted,   \* history: units the ledger has accepted
    denied,     \* history: [single, batch]: rejected calls completed
    effect,     \* history: effect[p]: net change p's current ledger call made to the counter
    debits,     \* history: debits[p]: the amounts of p's ledger increments, in order
    api_keys    \* the rows of the Postgres table api_keys, in order of insertion

vars == <<cache, quota, now, ticks, pc, req, rlcall, calls, batch, task, response,
          accepted, denied, effect, debits, api_keys>>

None == <<>>

-----------------------------------------------------------------------------
(* Bounds of the model *)

NumProcs == 2          \* concurrent requests
NumBatchClients == 1   \* how many of them may be batch requests
MaxCalls == 2          \* ledger calls per caller in the ledger workload
MaxCount == 4          \* largest batched increment in the ledger workload
MonthlyLimit == 3      \* the principal's plan-derived monthly_limit
MaxTicks == 1          \* clock advances explored
MaxBatchLen == 3       \* longest batch below the size limit

Procs == 1 .. NumProcs
BatchClients == {p \in Procs : p <= NumBatchClients}

-----------------------------------------------------------------------------
(* Program constants *)

MAX_BATCH_SIZE == 50
DAILY_LIMIT == 20
cache_ttl_seconds == 7 * 24 * 3600
cache_404_ttl_seconds == 24 * 3600
RATE_LIMIT_EXPIRE == 35 * 24 * 3600
PUBLIC_RATE_LIMIT_EXPIRE == 48 * 3600
NoTTL == -1            \* Redis reports -1 for a key without expiry

-----------------------------------------------------------------------------
(* Strings *)

Digits == {"0", "1", "2", "3", "4", "5", "6", "7", "8", "9"}
Whitespace == {" ", "\t", "\n", "\r"}

RECURSIVE LStrip(_)
LStrip(s) == IF s # <<>> /\ Head(s) \in Whitespace THEN LStrip(Tail(s)) ELSE s

RECURSIVE RStrip(_)
RStrip(s) ==
    IF s # <<>> /\ s[Len(s)] \in Whitespace THEN RStrip(SubSeq(s, 1, Len(s) - 1)) ELSE s

\* str.strip()
Strip(s) == RStrip(LStrip(s))

\* str.replace("-", "")
RECURSIVE RemoveDashes(_)
RemoveDashes(s) ==
    IF s = <<>> THEN <<>>
    ELSE IF Head(s) = "-" THEN RemoveDashes(Tail(s))
    ELSE <<Head(s)>> \o RemoveDashes(Tail(s))

\* re.compile(r"^\d{9}$").match: nine digits, then the end of the string or a
\* newline that ends the string
MatchEinDigits(s) ==
    /\ Len(s) \in {9, 10}
    /\ \A i \in 1 .. 9 : s[i] \in Digits
    /\ Len(s) = 10 => s[10] = "\n"

\* Mutant: the dash is put after the third digit
validate_ein_DashAfterThree(ein) ==
    LET clean == RemoveDashes(Strip(ein))
    IN  IF ~MatchEinDigits(clean) THEN None
        ELSE SubSeq(clean, 1, 3) \o <<"-">> \o SubSeq(clean, 4, Len(clean))

\* clean = ein.strip().replace("-", ""); f"{clean[:2]}-{clean[2:]}"
validate_ein(ein) ==
    LET clean == RemoveDashes(Strip(ein))
    IN  IF ~MatchEinDigits(clean) THEN None
        ELSE SubSeq(clean, 1, 2) \o <<"-">> \o SubSeq(clean, 3, Len(clean))

ein_to_digits(ein) == RemoveDashes(ein)

-----------------------------------------------------------------------------
(* Redis *)

RedisHas(store, key) == key \in DOMAIN store

RedisIncrBy(store, key, n) ==
    IF RedisHas(store, key)
    THEN [store EXCEPT ![key].val = @ + n]
    ELSE store @@ (key :> [val |-> n, ttl |-> NoTTL])

RedisDecrBy(store, key, n) == RedisIncrBy(store, key, 0 - n)

RedisExpire(store, key, seconds) ==
    IF RedisHas(store, key) THEN [store EXCEPT ![key].ttl = seconds] ELSE store

RedisSet(store, key, value, ex) ==
    [k \in DOMAIN store \cup {key} |->
        IF k = key THEN [val |-> value, ttl |-> ex] ELSE store[k]]

RedisGet(store, key) == IF RedisHas(store, key) THEN store[key].val ELSE None

\* The store after `seconds` have passed: keys whose expiry lapsed are gone
RedisAfter(store, seconds) ==
    LET live == {k \in DOMAIN store : store[k].ttl = NoTTL \/ store[k].ttl > seconds}
    IN  [k \in live |->
            IF store[k].ttl = NoTTL THEN store[k]
            ELSE [store[k] EXCEPT !.ttl = @ - seconds]]

CounterValue(store, key) == IF RedisHas(store, key) THEN store[key].val ELSE 0

-----------------------------------------------------------------------------
(* Quota ledger: middleware/rate_limit.py *)

\* The principal record the authentication collaborator hands over
api_key_info == [id |-> 1, monthly_limit |-> MonthlyLimit]

\* datetime.now(timezone.utc).strftime("%Y-%m"): the behaviours explored lie
\* within one calendar month
RateLimitKey(info) == <<"ratelimit:", ToString(info.id), "2024-01">>

Counter == CounterValue(quota, RateLimitKey(api_key_info))

NoCall == [fn |-> "none", key |-> <<>>, count |-> 0, new_total |-> 0]

\* Mutant: the limit test lets one unit too many through
ExceedsLimit_OffByOne(total, limit) == total > limit + 1

\* `if count > limit` / `if new_total > limit`
ExceedsLimit(total, limit) == total > limit

\* Mutant: the rejected batch gives nothing back
RollbackAmount_None(count) == 0

\* `await r.decrby(key, count)`: the amount the rejected batch gives back
RollbackAmount(count) == count

\* Mutant: the batch tests for 1 as the single-unit call does
FirstIncrement_IsOne(total, count) == total = 1

\* `if count == 1` / `if new_total == count`: the increment created the counter
FirstIncrement(total, count) == total = count

\* The call returns its count: the increment is accepted
RateLimitAccept(p) ==
    /\ pc' = [pc EXCEPT ![p] = "rl_ok"]
    /\ accepted' = accepted + rlcall[p].count
    /\ UNCHANGED denied

\* check_rate_limit raises 429
RateLimitReject(p) ==
    /\ pc' = [pc EXCEPT ![p] = "http429"]
    /\ denied' = [denied EXCEPT !.single = 1]
    /\ UNCHANGED accepted

\* p enters check_rate_limit(info) or check_rate_limit_batch(info, count)
EnterRateLimit(p, fn, count) ==
    /\ rlcall' = [rlcall EXCEPT ![p] = [fn |-> fn, key |-> RateLimitKey(api_key_info),
                                        count |-> count, new_total |-> 0]]
    /\ effect' = [effect EXCEPT ![p] = 0]

\* count = await r.incr(key)
check_rate_limit_incr(p) ==
    /\ pc[p] = "rl_incr"
    /\ rlcall[p].fn = "check_rate_limit"
    /\ LET key == rlcall[p].key
           q == RedisIncrBy(quota, key, 1)
           count == q[key].val
       IN  /\ quota' = q
           /\ rlcall' = [rlcall EXCEPT ![p].new_total = count]
           /\ effect' = [effect EXCEPT ![p] = @ + q[key].val - CounterValue(quota, key)]
           /\ debits' = [debits EXCEPT ![p] = Append(@, 1)]
           /\ IF FirstIncrement(count, 1)
              THEN pc' = [pc EXCEPT ![p] = "rl_expire"] /\ UNCHANGED <<accepted, denied>>
              ELSE IF ExceedsLimit(count, api_key_info.monthly_limit)
                   THEN RateLimitReject(p)
                   ELSE RateLimitAccept(p)
    /\ UNCHANGED <<cache, now, ticks, api_keys, req, calls, batch, task, response>>

\* await r.expire(key, 35 * 24 * 3600), then the limit check
check_rate_limit_expire(p) ==
    /\ pc[p] = "rl_expire"
    /\ rlcall[p].fn = "check_rate_limit"
    /\ quota' = RedisExpire(quota, rlcall[p].key, RATE_LIMIT_EXPIRE)
    /\ IF ExceedsLimit(rlcall[p].new_total, api_key_info.monthly_limit)
       THEN RateLimitReject(p)
       ELSE RateLimitAccept(p)
    /\ UNCHANGED <<cache, now, ticks, api_keys, req, rlcall, calls, batch, task, response,
                   effect, debits>>

\* After the optional expire of check_rate_limit_batch: the limit check
BatchLimitCheck(p, new_total) ==
    IF ExceedsLimit(new_total, api_key_info.monthly_limit)
    THEN pc' = [pc EXCEPT ![p] = "rl_decr"] /\ UNCHANGED <<accepted, denied>>
    ELSE RateLimitAccept(p)

\* new_total = await r.incrby(key, count)
check_rate_limit_batch_incrby(p) ==
    /\ pc[p] = "rl_incr"
    /\ rlcall[p].fn = "check_rate_limit_batch"
    /\ LET key == rlcall[p].key
           count == rlcall[p].count
           q == RedisIncrBy(quota, key, count)
           new_total == q[key].val
       IN  /\ quota' = q
           /\ rlcall' = [rlcall EXCEPT ![p].new_total = new_total]
           /\ effect' = [effect EXCEPT ![p] = @ + q[key].val - CounterValue(quota, key)]
           /\ debits' = [debits EXCEPT ![p] = Append(@, count)]
           /\ IF FirstIncrement(new_total, count)
              THEN pc' = [pc EXCEPT ![p] = "rl_expire"] /\ UNCHANGED <<accepted, denied>>
              ELSE BatchLimitCheck(p, new_total)
    /\ UNCHANGED <<cache, now, ticks, api_keys, req, calls, batch, task, response>>

\* await r.expire(key, 35 * 24 * 3600), then the limit check
check_rate_limit_batch_expire(p) ==
    /\ pc[p] = "rl_expire"
    /\ rlcall[p].fn = "check_rate_limit_batch"
    /\ quota' = RedisExpire(quota, rlcall[p].key, RATE_LIMIT_EXPIRE)
    /\ BatchLimitCheck(p, rlcall[p].new_total)
    /\ UNCHANGED <<cache, now, ticks, api_keys, req, rlcall, calls, batch, task, response,
                   effect, debits>>

\* await r.decrby(key, count), then raise 429
check_rate_limit_batch_decrby(p) ==
    /\ pc[p] = "rl_decr"
    /\ LET key == rlcall[p].key
           back == RollbackAmount(rlcall[p].count)
           q == RedisDecrBy(quota, key, back)
       IN  /\ quota' = q
           /\ effect' = [effect EXCEPT ![p] = @ + q[key].val - CounterValue(quota, key)]
    /\ pc' = [pc EXCEPT ![p] = "http429"]
    /\ denied' = [denied EXCEPT !.batch = 1]
    /\ UNCHANGED <<cache, now, ticks, api_keys, req, rlcall, calls, batch, task, response,
                   accepted, debits>>

-----------------------------------------------------------------------------
(* Ledger workload: callers of the quota ledger for one principal within   *)
(* one billing period, each making up to MaxCalls calls.                   *)

NoRequest == [kind |-> "none", eins |-> <<>>]

InitCommon ==
    /\ cache = <<>>
    /\ now = 0
    /\ ticks = 0
    /\ rlcall = [p \in Procs |-> NoCall]
    /\ calls = [p \in Procs |-> 0]
    /\ batch = [p \in Procs |-> [normalized_map |-> <<>>, unique_eins |-> <<>>]]
    /\ task = [p \in Procs |-> <<>>]
    /\ response = [p \in Procs |-> None]
    /\ accepted = 0
    /\ denied = [single |-> 0, batch |-> 0]
    /\ effect = [p \in Procs |-> 0]
    /\ debits = [p \in Procs |-> <<>>]
    /\ api_keys = <<>>

InitQuota ==
    /\ InitCommon
    /\ quota = <<>>
    /\ pc = [p \in Procs |-> "idle"]
    /\ req = [p \in Procs |-> NoRequest]

\* A caller starts check_rate_limit(api_key_info)
CallCheckRateLimit(p) ==
    /\ pc[p] \in {"idle", "rl_ok", "http429"}
    /\ calls[p] < MaxCalls
    /\ calls' = [calls EXCEPT ![p] = @ + 1]
    /\ EnterRateLimit(p, "check_rate_limit", 1)
    /\ pc' = [pc EXCEPT ![p] = "rl_incr"]
    /\ UNCHANGED <<cache, quota, now, ticks, api_keys, req, batch, task, response,
                   accepted, denied, debits>>

\* A caller starts check_rate_limit_batch(api_key_info, count)
CallCheckRateLimitBatch(p) ==
    /\ pc[p] \in {"idle", "rl_ok", "http429"}
    /\ calls[p] < MaxCalls
    /\ calls' = [calls EXCEPT ![p] = @ + 1]
    /\ \E count \in 1 .. MaxCount : EnterRateLimit(p, "check_rate_limit_batch", count)
    /\ pc' = [pc EXCEPT ![p] = "rl_incr"]
    /\ UNCHANGED <<cache, quota, now, ticks, api_keys, req, batch, task, response,
                   accepted, denied, debits>>

NextQuota ==
    \E p \in Procs :
        \/ CallCheckRateLimit(p)
        \/ CallCheckRateLimitBatch(p)
        \/ check_rate_limit_incr(p)
        \/ check_rate_limit_expire(p)
        \/ check_rate_limit_batch_incrby(p)
        \/ check_rate_limit_batch_expire(p)
        \/ check_rate_limit_batch_decrby(p)

SpecQuota == InitQuota /\ [][NextQuota]_vars

-----------------------------------------------------------------------------
(* Inputs of the lookup workload *)

EinA == <<"5", "3", "0", "1", "9", "6", "6", "0", "5">>
EinB == <<"1", "3", "1", "8", "3", "7", "4", "1", "8">>
BadEin == <<"b", "a", "d", "-", "e", "i", "n">>

Dashed(d) == SubSeq(d, 1, 2) \o <<"-">> \o SubSeq(d, 3, Len(d))

\* What the single and the public lookups are asked for
LookupInputs == {EinA, BadEin}

\* A batch of n identifiers that cycles through three spellings of two EINs
LongBatch(n) ==
    [i \in 1 .. n |->
        CASE i % 3 = 1 -> Dashed(EinA)
          [] i % 3 = 2 -> Dashed(EinB)
          [] OTHER -> EinA]

\* The batches clients send: the cycle at every length explored, at the size
\* limit and one over it; one EIN in two spellings; malformed lines
BatchInputs ==
    {LongBatch(n) : n \in (1 .. MaxBatchLen) \cup {MAX_BATCH_SIZE, MAX_BATCH_SIZE + 1}}
        \cup {<<Dashed(EinA), EinA>>, <<BadEin>>, <<Dashed(EinA), BadEin>>}


-----------------------------------------------------------------------------
(* Cache store: utils/cache.py *)

CacheKey(digits) == <<"verify:">> \o digits

NotFoundSentinel == [k \in {"_not_found"} |-> TRUE]

\* Mutant: the sentinel is not recognised
IsNotFound_Never(cached) == FALSE

\* cached.get("_not_found")
IsNotFound(cached) == "_not_found" \in DOMAIN cached /\ cached["_not_found"]

\* json.loads(await r.get(key)), or None
cache_get(key) == RedisGet(cache, key)

\* await r.set(key, json.dumps(value, default=str), ex=ttl)
cache_set(key, value, ttl) == RedisSet(cache, key, value, ttl)

\* Mutant: the sentinel is stored with the TTL of a record
NotFoundTTL_AsFound == cache_ttl_seconds

\* settings.cache_404_ttl_seconds
NotFoundTTL == cache_404_ttl_seconds

\* settings.cache_ttl_seconds
FoundTTL == cache_ttl_seconds

\* result.model_dump(): the fields of the model as a dict
model_dump(result) == [f \in DOMAIN result \ {"model"} |-> result[f]]

\* VerifyResponse(**cached)
VerifyResponse(d) == d @@ [model |-> "VerifyResponse"]

-----------------------------------------------------------------------------
(* Sources *)

ProviderOutcomes == {"not_found", "http_error", "invalid_json", "stub", "org"}
FilingOutcomes == {"none", "data", "raise"}

\* dict.get(k) of a value that is a dict or a list: the value, or None
Get(d, k) == IF k \in DOMAIN d THEN d[k] ELSE None

\* dict.get(k) of a number or a string: <<value>>, or <<>> for None.  A JSON
\* null is a key that dict.get finds absent
Opt(d, k) == IF k \in DOMAIN d THEN <<d[k]>> ELSE <<>>

\* A JSON number and a JSON string never compare equal in Python
JInt(n) == <<"int", ToString(n)>>
JStr(t) == <<"str", t>>

OrgName(digits) == IF digits = EinA THEN "AMERICAN NATIONAL RED CROSS"
                   ELSE "DOCTORS WITHOUT BORDERS USA"

StubName == "Unknown Organization"

\* A filing index of n entries, most recent first; the older entries carry
\* fewer figures
FilingIndex(n) ==
    [i \in 1 .. n |->
        IF i = 1
        THEN [tax_prd_yr |-> 2023, totrevenue |-> 3400, totfuncexpns |-> 3200,
              totassetsend |-> 11000, totliabend |-> 5000]
        ELSE [tax_prd_yr |-> 2024 - i, totrevenue |-> 3400 - 100 * i]]

\* What propublica.fetch_organization returns for a provider outcome
ProviderResponse(digits, outcome) ==
    CASE outcome = "org" ->
            [organization |-> [name |-> OrgName(digits), subsection_code |-> 3,
                               ruling_date |-> "1903-12",
                               exempt_organization_status_code |-> JInt(1),
                               updated_at |-> <<"2", "0", "2", "4", "-", "0", "1", "-", "1", "5",
                                                "T", "0", "0", ":", "0", "0">>],
             filings_with_data |-> FilingIndex(1)]
      [] outcome = "stub" ->
            [organization |-> [name |-> StubName],
             filings_with_data |-> <<>>]
      [] OTHER -> None

\* Names of officers: strings over upper- and lower-case letters
JaneDoe == <<"J", "a", "n", "e">>
JohnRoe == <<"J", "o", "h", "n">>

RevenueData == [contributions_and_grants |-> 2000, total_revenue |-> 3400]
ExpenseData == [program_services |-> 2800, total_expenses |-> 3200]

ScheduleJEntry(name, base) ==
    [name |-> name, base_compensation |-> base, total_compensation |-> base + 100]

Officer(name, compensation) ==
    [name |-> name, title |-> <<"CEO">>, compensation |-> compensation,
     hours_per_week |-> <<40>>]

\* What irs_990.get_filing_data returns for an archive outcome.  Its own
\* Redis entries (990filing:<digits>) are other keys than verify:<digits>
\* and are folded into the outcome: "data" and "none" are what it returns
\* from the archive or from its entry, "raise" is an exception out of it
FilingResponse(outcome) ==
    IF outcome = "data"
    THEN [officers |-> <<Officer(JaneDoe, <<500>>)>>,
          revenue_breakdown |-> RevenueData,
          schedule_j |-> <<ScheduleJEntry(JaneDoe, 400)>>]
    ELSE None

\* state_registry.check_all_states
check_all_states(digits) == <<>>

\* Mutant: the stub is recognised by its name alone
IsStub_NameOnly(org) == "name" \in DOMAIN org /\ org.name = StubName

\* The stub test of verify_organization: `not org.get(...)` holds of an
\* absent key, of 0 and of ""
IsStub(org) ==
    /\ ("subsection_code" \notin DOMAIN org \/ org.subsection_code = 0)
    /\ ("ruling_date" \notin DOMAIN org \/ org.ruling_date = "")
    /\ "name" \in DOMAIN org
    /\ org.name = StubName

\* Mutant: only the integer codes count as active
ACTIVE_STATUS_CODES_IntsOnly == {JInt(1), JInt(2)}

ACTIVE_STATUS_CODES == {JInt(1), JInt(2), JStr("01"), JStr("02"), JStr("1"), JStr("2")}

\* has_status = raw_status is not None and raw_status != ""
HasStatus(raw_status) == raw_status # None /\ raw_status # JStr("")

\* status = "active" if raw_status in ACTIVE_STATUS_CODES else ...
ExemptStatus(raw_status) ==
    IF raw_status \in ACTIVE_STATUS_CODES THEN "active"
    ELSE IF ~HasStatus(raw_status) THEN "unknown"
    ELSE "revoked"

\* revoked = has_status and raw_status not in ACTIVE_STATUS_CODES
Revoked(raw_status) == HasStatus(raw_status) /\ raw_status \notin ACTIVE_STATUS_CODES

Section501(code) == <<"501(c)(", ToString(code), ")">>

SUBSECTION_MAP == [c \in {3, 4, 5, 6, 7, 8, 9, 10, 13, 14, 19} |-> Section501(c)]

\* subsection = SUBSECTION_MAP.get(sub_code), or f"501(c)({sub_code})"
Subsection(org) ==
    IF "subsection_code" \notin DOMAIN org THEN None
    ELSE IF org.subsection_code \in DOMAIN SUBSECTION_MAP
         THEN SUBSECTION_MAP[org.subsection_code]
         ELSE Section501(org.subsection_code)

RevenueFields ==
    {"contributions_and_grants", "program_service_revenue", "investment_income",
     "other_revenue", "total_revenue"}
ExpenseFields ==
    {"program_services", "management_and_general", "fundraising", "total_expenses"}
CompensationFields ==
    {"base_compensation", "bonus_and_incentive", "other_compensation",
     "deferred_compensation", "nontaxable_benefits", "total_compensation"}

\* RevenueBreakdown(**d), ExpenseBreakdown(**d): the fields d lacks are None
RevenueBreakdown(d) == [f \in RevenueFields |-> Opt(d, f)]
ExpenseBreakdown(d) == [f \in ExpenseFields |-> Opt(d, f)]

\* `if filing_data: if filing_data.get(key): ...`, else None
BreakdownOf(filing_data, key) ==
    IF filing_data # None /\ Get(filing_data, key) # None THEN filing_data[key] ELSE None

\* Mutant: no financial summary without a filing-index entry
Financials_NeedsIndex(filings, revenue_breakdown, expense_breakdown) ==
    IF filings # <<>>
    THEN [tax_year |-> Opt(filings[1], "tax_prd_yr"),
          revenue |-> Opt(filings[1], "totrevenue"),
          expenses |-> Opt(filings[1], "totfuncexpns"),
          assets |-> Opt(filings[1], "totassetsend"),
          liabilities |-> Opt(filings[1], "totliabend"),
          revenue_breakdown |-> revenue_breakdown,
          expense_breakdown |-> expense_breakdown]
    ELSE None

\* financials: from filings[0], or the breakdowns alone, or None
Financials(filings, revenue_breakdown, expense_breakdown) ==
    IF filings # <<>>
    THEN LET f == filings[1]
         IN  [tax_year |-> Opt(f, "tax_prd_yr"),
              revenue |-> Opt(f, "totrevenue"),
              expenses |-> Opt(f, "totfuncexpns"),
              assets |-> Opt(f, "totassetsend"),
              liabilities |-> Opt(f, "totliabend"),
              revenue_breakdown |-> revenue_breakdown,
              expense_breakdown |-> expense_breakdown]
    ELSE IF revenue_breakdown # None \/ expense_breakdown # None
         THEN [tax_year |-> <<>>, revenue |-> <<>>, expenses |-> <<>>, assets |-> <<>>,
               liabilities |-> <<>>,
               revenue_breakdown |-> revenue_breakdown,
               expense_breakdown |-> expense_breakdown]
         ELSE None

\* str.lower()
Lower(name) ==
    LET LowerChar(c) ==
            CASE c = "J" -> "j" [] c = "A" -> "a" [] c = "N" -> "n" [] c = "E" -> "e"
              [] c = "O" -> "o" [] c = "H" -> "h" [] OTHER -> c
    IN  [i \in 1 .. Len(name) |-> LowerChar(name[i])]

\* Mutant: the names are compared as they are written
MatchKey_CaseSensitive(name) == name

\* entry["name"].lower(), p["name"].lower()
MatchKey(name) == Lower(name)

\* schedule_j_map: the last entry of each lower-cased name
ScheduleJMap(filing_data) ==
    LET entries == IF filing_data # None THEN Get(filing_data, "schedule_j") ELSE <<>>
        last(n) == CHOOSE i \in DOMAIN entries :
                      /\ MatchKey(entries[i].name) = n
                      /\ \A j \in DOMAIN entries : MatchKey(entries[j].name) = n => j <= i
    IN  [n \in {MatchKey(entries[i].name) : i \in DOMAIN entries} |-> entries[last(n)]]

CompensationDetail(sj) == [f \in CompensationFields |-> Opt(sj, f)]

\* Person(**p, compensation_detail=comp_detail)
Person(p, schedule_j_map) ==
    LET sj == Get(schedule_j_map, MatchKey(p.name))
    IN  [name |-> p.name, title |-> p.title, compensation |-> p.compensation,
         hours_per_week |-> p.hours_per_week,
         compensation_detail |-> IF sj # None THEN CompensationDetail(sj) ELSE None]

\* personnel
Personnel(filing_data) ==
    LET officers_data == IF filing_data # None THEN Get(filing_data, "officers") ELSE None
        schedule_j_map == ScheduleJMap(filing_data)
    IN  [i \in 1 .. Len(officers_data) |-> Person(officers_data[i], schedule_j_map)]

\* StateRegistration(**sr)
StateRegistration(sr) ==
    [state |-> sr.state, status |-> Opt(sr, "status"),
     registration_number |-> Opt(sr, "registration_number")]

\* data_sources: state_registries is given no value
DataSources(org, filings) ==
    LET updated_raw == Get(org, "updated_at")
    IN  [propublica |-> <<"today">>,
         irs_bmf |-> IF Len(updated_raw) >= 10 THEN SubSeq(updated_raw, 1, 10) ELSE None,
         irs_990 |-> IF filings # <<>> /\ "tax_prd_yr" \in DOMAIN filings[1]
                     THEN <<ToString(filings[1].tax_prd_yr)>> ELSE <<>>,
         state_registries |-> <<>>]

\* The record verify_organization builds
BuildResponse(normalized, org, filings, filing_data, state_reg_data) ==
    LET raw_status == Get(org, "exempt_organization_status_code")
        revenue_breakdown ==
            IF BreakdownOf(filing_data, "revenue_breakdown") # None
            THEN RevenueBreakdown(filing_data.revenue_breakdown) ELSE None
        expense_breakdown ==
            IF BreakdownOf(filing_data, "expense_breakdown") # None
            THEN ExpenseBreakdown(filing_data.expense_breakdown) ELSE None
    IN  [model |-> "VerifyResponse",
         ein |-> normalized,
         legal_name |-> Opt(org, "name"),
         status |-> ExemptStatus(raw_status),
         subsection |-> Subsection(org),
         ruling_date |-> Opt(org, "ruling_date"),
         revoked |-> Revoked(raw_status),
         ntee_code |-> Opt(org, "ntee_code"),
         city |-> Opt(org, "city"),
         state |-> Opt(org, "state"),
         financials |-> Financials(filings, revenue_breakdown, expense_breakdown),
         personnel |-> Personnel(filing_data),
         state_registrations |->
            [i \in 1 .. Len(state_reg_data) |-> StateRegistration(state_reg_data[i])],
         data_sources |-> DataSources(org, filings),
         propublica_url |->
            <<"https://projects.propublica.org/nonprofits/organizations/">>
                \o ein_to_digits(normalized)]

-----------------------------------------------------------------------------
(* One lookup: the cache read, the aggregation, the cache write *)

NewTask(normalized) ==
    [normalized |-> normalized, tpc |-> "cache_get", hit |-> FALSE,
     registry |-> "none", org |-> None, filings |-> <<>>, data |-> None,
     error |-> None, io |-> <<>>]

\* f"No nonprofit found with EIN {normalized}"
NotFoundError(normalized) == [detail |-> "No nonprofit found with EIN", ein |-> normalized]

\* str(e) of an exception raised inside the aggregation
RaisedError(e) == [detail |-> e]

Did(t, op) == \E k \in 1 .. Len(t.io) : t.io[k] = op

\* The lookup ended with a cache hit
TaskHit(t, cached) ==
    IF IsNotFound(cached)
    THEN [t EXCEPT !.tpc = "done", !.hit = TRUE, !.error = NotFoundError(t.normalized),
                   !.io = Append(@, "cache_get")]
    ELSE [t EXCEPT !.tpc = "done", !.hit = TRUE, !.data = cached,
                   !.io = Append(@, "cache_get")]

\* The lookup missed the cache and enters verify_organization
TaskMiss(t) ==
    [t EXCEPT !.tpc = "registry", !.io = @ \o <<"cache_get", "verify_organization">>]

\* An exception leaves _process_ein through `except Exception as e`
TaskRaised(t, op, e) ==
    [t EXCEPT !.tpc = "done", !.error = RaisedError(e), !.data = None, !.io = Append(@, op)]

-----------------------------------------------------------------------------
(* Aggregation: services/enricher.py verify_organization *)

\* Mutant: an absent registry answer does not end the aggregation
AfterRegistry_NoShortCircuit(t, outcome) ==
    [raised |-> FALSE,
     t |-> [t EXCEPT !.tpc = "filing", !.registry = outcome,
                     !.io = Append(@, "fetch_organization")]]

\* verify_organization from the registry's answer pp_data to its next await
\* or to `return None`
RegistryStep(t, pp_data) ==
    LET absent == [t EXCEPT !.tpc = "cache_set", !.data = None,
                            !.io = Append(@, "fetch_organization")]
    IN  IF pp_data = None THEN absent
        ELSE LET org == Get(pp_data, "organization")
                 filings == Get(pp_data, "filings_with_data")
             IN  IF IsStub(org) THEN absent
                 ELSE [t EXCEPT !.tpc = "filing", !.org = org, !.filings = filings,
                                !.io = Append(@, "fetch_organization")]

\* The registry request ended with `outcome`: [raised, t]
AfterRegistry(t, outcome) ==
    LET normalized == validate_ein(t.normalized)
        digits == ein_to_digits(normalized)
    IN  IF outcome = "invalid_json"
        THEN [raised |-> TRUE, t |-> [t EXCEPT !.registry = outcome]]
        ELSE [raised |-> FALSE,
              t |-> [RegistryStep(t, ProviderResponse(digits, outcome))
                        EXCEPT !.registry = outcome]]

\* `filing_data = await irs_990.get_filing_data(digits)` returned: the
\* function goes on to `await state_registry.check_all_states(digits)`
ArchiveStep(t) == [t EXCEPT !.tpc = "states", !.io = Append(@, "get_filing_data")]

\* The state check returned: the record is built and returned
StatesStep(t, filing_data, state_reg_data) ==
    [t EXCEPT !.tpc = "cache_set",
              !.data = BuildResponse(validate_ein(t.normalized), t.org, t.filings,
                                     filing_data, state_reg_data),
              !.io = Append(@, "check_all_states")]

\* verify_organization from the archive's answer filing_data to its return;
\* the state check of state_registry.py touches nothing and returns at once
FilingStep(t, filing_data, state_reg_data) ==
    StatesStep(ArchiveStep(t), filing_data, state_reg_data)

\* The archive request ended with `outcome`: [raised, t]
AfterFiling(t, outcome) ==
    LET digits == ein_to_digits(validate_ein(t.normalized))
    IN  IF outcome = "raise" THEN [raised |-> TRUE, t |-> t]
        ELSE [raised |-> FALSE,
              t |-> FilingStep(t, FilingResponse(outcome), check_all_states(digits))]

\* Mutant: _process_ein does not catch the exception
Propagate_Escapes(p, i, op, e) ==
    /\ task' = [task EXCEPT ![p][i] = TaskRaised(@, op, e)]
    /\ pc' = [pc EXCEPT ![p] = "done"]
    /\ response' = [response EXCEPT ![p] = [status |-> 500]]

\* An exception of the aggregation: _process_ein turns it into an error entry,
\* the single and the public handler let it escape
Propagate(p, i, op, e) ==
    IF req[p].kind = "batch"
    THEN /\ task' = [task EXCEPT ![p][i] = TaskRaised(@, op, e)]
         /\ UNCHANGED <<pc, response>>
    ELSE /\ task' = [task EXCEPT ![p][i] = TaskRaised(@, op, e)]
         /\ pc' = [pc EXCEPT ![p] = "done"]
         /\ response' = [response EXCEPT ![p] = [status |-> 500]]

\* pp_data = await propublica.fetch_organization(digits)
verify_organization_registry(p, i) ==
    /\ pc[p] \in {"lookup", "gather"}
    /\ i \in DOMAIN task[p]
    /\ task[p][i].tpc = "registry"
    /\ \E outcome \in ProviderOutcomes :
          LET r == AfterRegistry(task[p][i], outcome)
          IN  IF r.raised THEN Propagate(p, i, "fetch_organization", "JSONDecodeError")
              ELSE /\ task' = [task EXCEPT ![p][i] = r.t]
                   /\ UNCHANGED <<pc, response>>
    /\ UNCHANGED <<cache, quota, now, ticks, api_keys, req, rlcall, calls, batch,
                   accepted, denied, effect, debits>>

\* filing_data = await irs_990.get_filing_data(digits)
verify_organization_filing(p, i) ==
    /\ pc[p] \in {"lookup", "gather"}
    /\ i \in DOMAIN task[p]
    /\ task[p][i].tpc = "filing"
    /\ \E outcome \in FilingOutcomes :
          LET r == AfterFiling(task[p][i], outcome)
          IN  IF r.raised THEN Propagate(p, i, "get_filing_data", "RedisError")
              ELSE /\ task' = [task EXCEPT ![p][i] = r.t]
                   /\ UNCHANGED <<pc, response>>
    /\ UNCHANGED <<cache, quota, now, ticks, api_keys, req, rlcall, calls, batch,
                   accepted, denied, effect, debits>>

-----------------------------------------------------------------------------
(* Cache write-through of a lookup that missed *)

\* `if result is None: cache_set(sentinel, 404 ttl)`, else cache_set(dump, ttl)
StoreResult(t) ==
    LET cache_key == CacheKey(ein_to_digits(t.normalized))
    IN  IF t.data = None
        THEN cache_set(cache_key, NotFoundSentinel, NotFoundTTL)
        ELSE cache_set(cache_key, model_dump(t.data), FoundTTL)

\* The lookup after its cache write; what the registry request ended with
\* is kept only while the lookup is inside the aggregation or about to write
TaskStored(t) ==
    IF t.data = None
    THEN [t EXCEPT !.tpc = "done", !.registry = "none",
                   !.error = NotFoundError(t.normalized),
                   !.io = Append(@, "cache_set")]
    ELSE [t EXCEPT !.tpc = "done", !.registry = "none", !.io = Append(@, "cache_set")]

\* What the single and the public handler return for a finished lookup
LookupResponse(t) ==
    IF t.data = None
    THEN [status |-> 404, detail |-> t.error]
    ELSE [status |-> 200, body |-> t.data]

-----------------------------------------------------------------------------
(* routes/verify.py verify_nonprofit *)

InvalidEinResponse == [status |-> 400, detail |-> "Invalid EIN format"]

verify_nonprofit(p) ==
    /\ pc[p] = "idle"
    /\ \E ein \in LookupInputs :
          /\ req' = [req EXCEPT ![p] = [kind |-> "single", eins |-> <<ein>>]]
          /\ IF validate_ein(ein) = None
             THEN /\ response' = [response EXCEPT ![p] = InvalidEinResponse]
                  /\ pc' = [pc EXCEPT ![p] = "done"]
                  /\ UNCHANGED <<rlcall, effect>>
             ELSE /\ EnterRateLimit(p, "check_rate_limit", 1)
                  /\ pc' = [pc EXCEPT ![p] = "rl_incr"]
                  /\ UNCHANGED response
    /\ UNCHANGED <<cache, quota, now, ticks, api_keys, calls, batch, task, accepted, denied, debits>>

\* cached = await cache_get(cache_key) and the hit branch
LookupCacheGet(p, kind) ==
    /\ pc[p] = "rl_ok"
    /\ req[p].kind = kind
    /\ LET normalized == validate_ein(req[p].eins[1])
           cache_key == CacheKey(ein_to_digits(normalized))
           cached == cache_get(cache_key)
       IN  IF cached # None
           THEN /\ task' = [task EXCEPT ![p] = <<TaskHit(NewTask(normalized), cached)>>]
                /\ response' = [response EXCEPT ![p] = LookupResponse(task'[p][1])]
                /\ pc' = [pc EXCEPT ![p] = "done"]
           ELSE /\ task' = [task EXCEPT ![p] = <<TaskMiss(NewTask(normalized))>>]
                /\ pc' = [pc EXCEPT ![p] = "lookup"]
                /\ UNCHANGED response
    /\ UNCHANGED <<cache, quota, now, ticks, api_keys, req, rlcall, calls, batch,
                   accepted, denied, effect, debits>>

\* await cache_set(...) and the return or the 404
LookupCacheSet(p, kind) ==
    /\ pc[p] = "lookup"
    /\ req[p].kind = kind
    /\ task[p][1].tpc = "cache_set"
    /\ cache' = StoreResult(task[p][1])
    /\ task' = [task EXCEPT ![p][1] = TaskStored(@)]
    /\ response' = [response EXCEPT ![p] = LookupResponse(task'[p][1])]
    /\ pc' = [pc EXCEPT ![p] = "done"]
    /\ UNCHANGED <<quota, now, ticks, api_keys, req, rlcall, calls, batch,
                   accepted, denied, effect, debits>>

verify_nonprofit_cache_get(p) == LookupCacheGet(p, "single")

verify_nonprofit_cache_set(p) == LookupCacheSet(p, "single")

-----------------------------------------------------------------------------
(* routes/public.py public_verify *)


\* f"public_ratelimit:{ip}:{day}"
PublicRateLimitKey(ip, t) == <<"public_ratelimit:", ip, ToString(t \div (24 * 3600))>>

\* After _check_ip_rate_limit's Redis calls: its limit check, then validate_ein
AfterIpRateLimit(p, count) ==
    IF count > DAILY_LIMIT
    THEN pc' = [pc EXCEPT ![p] = "http429"] /\ UNCHANGED response
    ELSE IF validate_ein(req[p].eins[1]) = None
         THEN /\ response' = [response EXCEPT ![p] = InvalidEinResponse]
              /\ pc' = [pc EXCEPT ![p] = "done"]
         ELSE pc' = [pc EXCEPT ![p] = "rl_ok"] /\ UNCHANGED response

public_verify(p) ==
    /\ pc[p] = "idle"
    /\ \E ein \in LookupInputs :
          req' = [req EXCEPT ![p] = [kind |-> "public", eins |-> <<ein>>]]
    /\ rlcall' = [rlcall EXCEPT ![p] = [fn |-> "_check_ip_rate_limit",
                                        key |-> PublicRateLimitKey("203.0.113.7", now),
                                        count |-> 1, new_total |-> 0]]
    /\ pc' = [pc EXCEPT ![p] = "ip_incr"]
    /\ UNCHANGED <<cache, quota, now, ticks, api_keys, calls, batch, task, response,
                   accepted, denied, effect, debits>>

\* count = await r.incr(key)
check_ip_rate_limit_incr(p) ==
    /\ pc[p] = "ip_incr"
    /\ LET q == RedisIncrBy(quota, rlcall[p].key, 1)
           count == q[rlcall[p].key].val
       IN  /\ quota' = q
           /\ rlcall' = [rlcall EXCEPT ![p].new_total = count]
           /\ IF count = 1
              THEN pc' = [pc EXCEPT ![p] = "ip_expire"] /\ UNCHANGED response
              ELSE AfterIpRateLimit(p, count)
    /\ UNCHANGED <<cache, now, ticks, api_keys, req, calls, batch, task,
                   accepted, denied, effect, debits>>

\* await r.expire(key, 48 * 3600)
check_ip_rate_limit_expire(p) ==
    /\ pc[p] = "ip_expire"
    /\ quota' = RedisExpire(quota, rlcall[p].key, PUBLIC_RATE_LIMIT_EXPIRE)
    /\ AfterIpRateLimit(p, rlcall[p].new_total)
    /\ UNCHANGED <<cache, now, ticks, api_keys, req, rlcall, calls, batch, task,
                   accepted, denied, effect, debits>>

public_verify_cache_get(p) == LookupCacheGet(p, "public")

public_verify_cache_set(p) == LookupCacheSet(p, "public")

-----------------------------------------------------------------------------
(* routes/verify.py verify_batch *)

BatchTooLargeResponse == [status |-> 400, detail |-> "Batch size exceeds maximum"]

\* normalized_map: original -> normalized
NormalizedMap(eins) == [ein \in {eins[i] : i \in DOMAIN eins} |-> validate_ein(ein)]

\* Mutant: no de-duplication by digits
UniqueEins_NoDedup(normalized_values, seen) == normalized_values

\* unique_eins as the list of its values, in insertion order: the first
\* normalized form of each digits
RECURSIVE UniqueEins(_, _)
UniqueEins(normalized_values, seen) ==
    IF normalized_values = <<>> THEN <<>>
    ELSE LET normalized == Head(normalized_values)
             digits == ein_to_digits(normalized)
         IN  IF digits \in seen THEN UniqueEins(Tail(normalized_values), seen)
             ELSE <<normalized>> \o UniqueEins(Tail(normalized_values), seen \cup {digits})

\* normalized_map.values(): one value per distinct original, in first-seen order
RECURSIVE MapValues(_, _)
MapValues(eins, seen) ==
    IF eins = <<>> THEN <<>>
    ELSE IF Head(eins) \in seen THEN MapValues(Tail(eins), seen)
         ELSE <<validate_ein(Head(eins))>> \o MapValues(Tail(eins), seen \cup {Head(eins)})

\* Mutant: the size test admits one identifier too many
BatchTooLarge_OffByOne(eins) == Len(eins) > MAX_BATCH_SIZE + 1

\* The size test of verify_batch
BatchTooLarge(eins) == Len(eins) > MAX_BATCH_SIZE

\* The amount verify_batch debits
BatchCost(unique_eins) == Len(unique_eins)

verify_batch(p) ==
    /\ pc[p] = "idle"
    /\ p \in BatchClients
    /\ \E eins \in BatchInputs :
          /\ req' = [req EXCEPT ![p] = [kind |-> "batch", eins |-> eins]]
          /\ IF BatchTooLarge(eins)
             THEN /\ response' = [response EXCEPT ![p] = BatchTooLargeResponse]
                  /\ pc' = [pc EXCEPT ![p] = "done"]
                  /\ UNCHANGED <<rlcall, effect, batch>>
             ELSE IF \E k \in DOMAIN eins : validate_ein(eins[k]) = None
                  THEN /\ response' = [response EXCEPT ![p] = InvalidEinResponse]
                       /\ pc' = [pc EXCEPT ![p] = "done"]
                       /\ UNCHANGED <<rlcall, effect, batch>>
                  ELSE LET unique_eins == UniqueEins(MapValues(eins, {}), {})
                       IN  /\ batch' = [batch EXCEPT ![p] =
                                           [normalized_map |-> NormalizedMap(eins),
                                            unique_eins |-> unique_eins]]
                           /\ EnterRateLimit(p, "check_rate_limit_batch",
                                             BatchCost(unique_eins))
                           /\ pc' = [pc EXCEPT ![p] = "rl_incr"]
                           /\ UNCHANGED response
    /\ UNCHANGED <<cache, quota, now, ticks, api_keys, calls, task, accepted, denied, debits>>

\* tasks = [_process_ein(normalized) for normalized in unique_eins.values()]
verify_batch_gather(p) ==
    /\ pc[p] = "rl_ok"
    /\ req[p].kind = "batch"
    /\ task' = [task EXCEPT ![p] =
                   [i \in 1 .. Len(batch[p].unique_eins) |->
                       NewTask(batch[p].unique_eins[i])]]
    /\ pc' = [pc EXCEPT ![p] = "gather"]
    /\ UNCHANGED <<cache, quota, now, ticks, api_keys, req, rlcall, calls, batch, response,
                   accepted, denied, effect, debits>>

\* _process_ein: cached = await cache_get(cache_key) and the hit branch
process_ein_cache_get(p, i) ==
    /\ pc[p] = "gather"
    /\ i \in DOMAIN task[p]
    /\ task[p][i].tpc = "cache_get"
    /\ LET t == task[p][i]
           cached == cache_get(CacheKey(ein_to_digits(t.normalized)))
       IN  IF cached # None
           THEN IF IsNotFound(cached)
                THEN task' = [task EXCEPT ![p][i] = TaskHit(t, cached)]
                ELSE task' = [task EXCEPT ![p][i] = TaskHit(t, VerifyResponse(cached))]
           ELSE task' = [task EXCEPT ![p][i] = TaskMiss(t)]
    /\ UNCHANGED <<cache, quota, now, ticks, api_keys, pc, req, rlcall, calls, batch, response,
                   accepted, denied, effect, debits>>

\* _process_ein: await cache_set(...) and the return
process_ein_cache_set(p, i) ==
    /\ pc[p] = "gather"
    /\ i \in DOMAIN task[p]
    /\ task[p][i].tpc = "cache_set"
    /\ cache' = StoreResult(task[p][i])
    /\ task' = [task EXCEPT ![p][i] = TaskStored(@)]
    /\ UNCHANGED <<quota, now, ticks, api_keys, pc, req, rlcall, calls, batch, response,
                   accepted, denied, effect, debits>>

\* results_by_digits[digits] = (data, error)
ResultsByDigits(results_raw) ==
    [digits \in {ein_to_digits(results_raw[i].normalized) : i \in DOMAIN results_raw} |->
        LET i == CHOOSE j \in DOMAIN results_raw :
                    /\ ein_to_digits(results_raw[j].normalized) = digits
                    /\ \A k \in DOMAIN results_raw :
                          ein_to_digits(results_raw[k].normalized) = digits => k <= j
        IN  [data |-> results_raw[i].data, error |-> results_raw[i].error]]

\* The BatchVerifyResult of one request line
BatchVerifyResult(ein, normalized_map, results_by_digits) ==
    LET normalized == normalized_map[ein]
        r == results_by_digits[ein_to_digits(normalized)]
    IN  IF r.data # None
        THEN [ein |-> normalized, success |-> TRUE, data |-> r.data, error |-> None]
        ELSE [ein |-> normalized, success |-> FALSE, data |-> None, error |-> r.error]

\* Mutant: one result entry per unique EIN instead of one per request line
BatchVerifyResponse_PerUnique(eins, normalized_map, results_raw) ==
    LET results == [k \in 1 .. Len(results_raw) |->
                       BatchVerifyResult(results_raw[k].normalized,
                                         [e \in {results_raw[k].normalized} |-> e],
                                         ResultsByDigits(results_raw))]
    IN  [status |-> 200,
         total |-> Len(eins),
         succeeded |-> Cardinality({k \in DOMAIN results : results[k].success}),
         failed |-> Cardinality({k \in DOMAIN results : ~results[k].success}),
         results |-> results]

\* The BatchVerifyResponse
BatchVerifyResponse(eins, normalized_map, results_raw) ==
    LET results == [k \in 1 .. Len(eins) |->
                       BatchVerifyResult(eins[k], normalized_map,
                                         ResultsByDigits(results_raw))]
    IN  [status |-> 200,
         total |-> Len(eins),
         succeeded |-> Cardinality({k \in DOMAIN results : results[k].success}),
         failed |-> Cardinality({k \in DOMAIN results : ~results[k].success}),
         results |-> results]

\* results_raw = await asyncio.gather(*tasks), then the assembly of the response
verify_batch_assemble(p) ==
    /\ pc[p] = "gather"
    /\ \A i \in DOMAIN task[p] : task[p][i].tpc = "done"
    /\ response' = [response EXCEPT ![p] =
                       BatchVerifyResponse(req[p].eins, batch[p].normalized_map, task[p])]
    /\ pc' = [pc EXCEPT ![p] = "done"]
    /\ UNCHANGED <<cache, quota, now, ticks, api_keys, req, rlcall, calls, batch, task,
                   accepted, denied, effect, debits>>

-----------------------------------------------------------------------------
(* Time *)


\* The clock advances: Redis drops the keys whose expiry lapsed
Tick ==
    /\ ticks < MaxTicks
    /\ \E d \in {cache_404_ttl_seconds, cache_ttl_seconds} :
          /\ now' = now + d
          /\ cache' = RedisAfter(cache, d)
          /\ quota' = RedisAfter(quota, d)
    /\ ticks' = ticks + 1
    /\ UNCHANGED <<pc, req, rlcall, calls, batch, task, response,
                   accepted, denied, effect, debits, api_keys>>

-----------------------------------------------------------------------------
(* Lookup workload: NumProcs concurrent requests, each one of the three    *)
(* entrypoints, against one Redis.                                         *)

\* What the principal used of the period's quota before these requests is
\* nothing, or all but what one batch of two identifiers costs; the ledger
\* is what earlier accepted calls adding up to `used` left
Init ==
    /\ InitCommon
    /\ \E used \in {0, api_key_info.monthly_limit - 2} :
          quota = IF used = 0 THEN <<>>
                  ELSE RedisExpire(RedisIncrBy(<<>>, RateLimitKey(api_key_info), used),
                                   RateLimitKey(api_key_info), RATE_LIMIT_EXPIRE)
    /\ pc = [p \in Procs |-> "idle"]
    /\ req = [p \in Procs |-> NoRequest]

Next ==
    \/ Tick
    \/ \E p \in Procs :
        \/ verify_nonprofit(p)
        \/ verify_nonprofit_cache_get(p)
        \/ verify_nonprofit_cache_set(p)
        \/ public_verify(p)
        \/ check_ip_rate_limit_incr(p)
        \/ check_ip_rate_limit_expire(p)
        \/ public_verify_cache_get(p)
        \/ public_verify_cache_set(p)
        \/ verify_batch(p)
        \/ verify_batch_gather(p)
        \/ verify_batch_assemble(p)
        \/ check_rate_limit_incr(p)
        \/ check_rate_limit_expire(p)
        \/ check_rate_limit_batch_incrby(p)
        \/ check_rate_limit_batch_expire(p)
        \/ check_rate_limit_batch_decrby(p)
        \/ \E i \in DOMAIN task[p] :
            \/ process_ein_cache_get(p, i)
            \/ process_ein_cache_set(p, i)
            \/ verify_organization_registry(p, i)
            \/ verify_organization_filing(p, i)

Spec == Init /\ [][Next]_vars

-----------------------------------------------------------------------------
(* Properties of the quota ledger, checked under SpecQuota *)

RECURSIVE SeqSum(_)
SeqSum(q) == IF q = <<>> THEN 0 ELSE Head(q) + SeqSum(Tail(q))

\* No ledger call is in progress
LedgerQuiescent == \A p \in Procs : pc[p] \in {"idle", "rl_ok", "http429"}

\* C6: a check_rate_limit_batch call rejected because counter + n > limit has
\* changed the counter by nothing once it has returned, and a call is rejected
\* only when the total its increment produced exceeds the limit, so a later
\* increment-by-m with counter + m <= limit is accepted
C6_RejectedBatchLeavesCounter ==
    \A p \in Procs :
        /\ (pc[p] = "http429" /\ rlcall[p].fn = "check_rate_limit_batch")
              => effect[p] = 0
        /\ (pc[p] \in {"rl_decr", "http429"} /\ rlcall[p].fn # "none")
              => rlcall[p].new_total > api_key_info.monthly_limit
        /\ (pc[p] = "rl_ok" /\ rlcall[p].fn # "none")
              => rlcall[p].new_total <= api_key_info.monthly_limit

\* C6 witness: a caller whose first call, a batch, was rejected and rolled
\* back has a later increment accepted
C6_Witness ==
    \E p \in Procs :
        /\ denied.batch = 1
        /\ Len(debits[p]) = 2
        /\ debits[p][1] > 1
        /\ pc[p] = "rl_ok"
        /\ accepted < debits[p][1] + debits[p][2]
        /\ \A q \in Procs \ {p} : debits[q] = <<>>

\* C7 as claimed: once every call has returned, the counter equals the sum
\* of the accepted increments
C7_CounterIsAcceptedSum == LedgerQuiescent => Counter = accepted

\* C8: the units accepted in a billing period never exceed the monthly limit
C8_AcceptedWithinLimit == accepted <= api_key_info.monthly_limit

\* C8 witness: the limit is used up by calls of two callers, one of them a
\* batch, and a further call was rejected
C8_Witness ==
    /\ accepted = api_key_info.monthly_limit
    /\ \A p \in Procs : debits[p] # <<>>
    /\ \E p \in Procs : rlcall[p].fn = "check_rate_limit_batch" /\ pc[p] = "rl_ok"
    /\ denied.batch = 1

-----------------------------------------------------------------------------
(* Properties of the lookups, checked under Spec *)

DigitsOf(ein) == ein_to_digits(validate_ein(ein))

\* The identifiers a list of inputs denotes, position by position
RECURSIVE DigitsSeq(_)
DigitsSeq(eins) ==
    IF eins = <<>> THEN <<>>
    ELSE <<DigitsOf(Head(eins))>> \o DigitsSeq(Tail(eins))

\* The lookups of request p for the identifier `digits`
TasksFor(p, digits) ==
    {i \in DOMAIN task[p] : ein_to_digits(task[p][i].normalized) = digits}

\* How often request p invoked the aggregation for `digits`
AggCalls(p, digits) ==
    Cardinality(UNION {{<<i, k>> : k \in {m \in 1 .. Len(task[p][i].io) :
                                            task[p][i].io[m] = "verify_organization"}} :
                       i \in TasksFor(p, digits)})

\* C1: within one aggregation the archive fetch and the state check are
\* issued only after the registry fetch completed with an organization; when
\* the registry is absent the aggregation returns absent and invokes neither
C1_RegistryBeforeOtherSources ==
    \A p \in Procs : \A i \in DOMAIN task[p] :
        LET t == task[p][i]
        IN  /\ (t.tpc = "filing" \/ Did(t, "get_filing_data") \/ Did(t, "check_all_states"))
                  => /\ t.org # None
                     /\ \A k \in 1 .. Len(t.io) :
                           t.io[k] \in {"get_filing_data", "check_all_states"}
                              => \E j \in 1 .. k - 1 : t.io[j] = "fetch_organization"
            /\ (Did(t, "fetch_organization") /\ t.org = None)
                  => /\ t.tpc \in {"cache_set", "done"}
                     /\ t.data = None
                     /\ ~Did(t, "get_filing_data")
                     /\ ~Did(t, "check_all_states")

\* C1 witness: one aggregation went through registry, archive and state
\* check; another got an absent registry answer and returned absent
C1_Witness ==
    \E p \in Procs : \E i, j \in DOMAIN task[p] :
        /\ task[p][i].io = <<"cache_get", "verify_organization", "fetch_organization",
                             "get_filing_data", "check_all_states", "cache_set">>
        /\ task[p][i].org # None
        /\ task[p][j].io = <<"cache_get", "verify_organization", "fetch_organization",
                             "cache_set">>
        /\ task[p][j].org = None
        /\ task[p][j].error = NotFoundError(task[p][j].normalized)

\* C2: a valid batch invokes the aggregation at most once per distinct
\* identifier, exactly once for an identifier that missed the cache, and
\* debits the ledger in one call by the number of distinct identifiers
C2_BatchDeduplicates ==
    \A p \in Procs :
        req[p].kind = "batch" =>
            LET distinct == {DigitsOf(req[p].eins[k]) : k \in DOMAIN req[p].eins}
            IN  /\ Len(debits[p]) <= 1
                /\ debits[p] # <<>> => debits[p][1] = Cardinality(distinct)
                /\ task[p] # <<>> => debits[p] # <<>>
                /\ \A i \in DOMAIN task[p] :
                      /\ ein_to_digits(task[p][i].normalized) \in distinct
                      /\ AggCalls(p, ein_to_digits(task[p][i].normalized)) <= 1
                      /\ (task[p][i].tpc # "cache_get" /\ ~task[p][i].hit)
                            => AggCalls(p, ein_to_digits(task[p][i].normalized)) = 1
                /\ pc[p] = "gather" => \A d \in distinct : TasksFor(p, d) # {}

\* C2 witness: the batch of one EIN in two spellings was answered after one
\* aggregation and a debit of 1
C2_Witness ==
    \E p \in Procs :
        /\ req[p].eins = <<Dashed(EinA), EinA>>
        /\ pc[p] = "done"
        /\ debits[p] = <<1>>
        /\ AggCalls(p, EinA) = 1
        /\ response[p].status = 200
        /\ response[p].succeeded = 2

\* C3: the response of an accepted batch of k identifiers has k entries,
\* entry i carries the canonical form of input i, total = k,
\* succeeded + failed = k, and entries of one identifier are identical
C3_BatchResponseShape ==
    \A p \in Procs :
        (req[p].kind = "batch" /\ pc[p] = "done" /\ debits[p] # <<>>) =>
            LET eins == req[p].eins
                r == response[p]
                ds == DigitsSeq(eins)
            IN  /\ r.status = 200
                /\ Len(r.results) = Len(eins)
                /\ r.total = Len(eins)
                /\ r.succeeded + r.failed = Len(eins)
                /\ r.succeeded = Cardinality({k \in DOMAIN r.results : r.results[k].success})
                /\ \A k \in DOMAIN eins : r.results[k].ein = validate_ein(eins[k])
                /\ \A k, m \in DOMAIN eins :
                      ds[k] = ds[m]
                         => /\ r.results[k].success = r.results[m].success
                            /\ r.results[k].data = r.results[m].data
                            /\ r.results[k].error = r.results[m].error

\* C3 witness: a batch at the size limit, with repeats, was answered with
\* successes and failures
C3_Witness ==
    \E p \in Procs :
        /\ req[p].eins = LongBatch(MAX_BATCH_SIZE)
        /\ pc[p] = "done"
        /\ response[p].status = 200
        /\ response[p].succeeded > 0
        /\ response[p].failed > 0

\* C4: in a batch, an aggregation that returned not-found or raised fails
\* only the entries of its identifier, and the batch still returns a response
C4_BatchIsolatesFailures ==
    \A p \in Procs :
        req[p].kind = "batch" =>
            /\ response[p] # None => response[p].status \in {200, 400}
            /\ (pc[p] = "done" /\ task[p] # <<>>) =>
                  /\ response[p].status = 200
                  /\ \A k \in DOMAIN req[p].eins :
                        \A i \in TasksFor(p, DigitsOf(req[p].eins[k])) :
                            LET e == response[p].results[k]
                            IN  /\ e.success = (task[p][i].data # None)
                                /\ e.data = task[p][i].data
                                /\ ~e.success => (e.error = task[p][i].error /\ e.error # None)

\* C4 witness: a batch answered with one entry failed by an exception of its
\* aggregation, one failed as not found, and neither affecting the other
C4_Witness ==
    \E p \in Procs :
        /\ req[p].kind = "batch"
        /\ pc[p] = "done"
        /\ response[p].status = 200
        /\ \E i, j \in DOMAIN task[p] :
              /\ task[p][i].error = RaisedError("JSONDecodeError")
              /\ task[p][j].data # None
        /\ response[p].succeeded > 0
        /\ response[p].failed > 0

\* C5: a batch of more than 50 identifiers is rejected with the
\* count-exceeded error before any quota increment, cache access or
\* aggregation: the step that rejects it leaves counters and cache as they were
C5_OversizeBatchRejected ==
    /\ [](\A p \in Procs :
            (req[p].kind = "batch" /\ Len(req[p].eins) > MAX_BATCH_SIZE)
               => /\ pc[p] = "done"
                  /\ response[p] = BatchTooLargeResponse
                  /\ debits[p] = <<>>
                  /\ rlcall[p] = NoCall
                  /\ task[p] = <<>>)
    /\ [][\A p \in Procs :
            (req[p] # req'[p] /\ req'[p].kind = "batch"
                /\ Len(req'[p].eins) > MAX_BATCH_SIZE)
               => (quota' = quota /\ cache' = cache)]_vars

\* C5 witness: a batch of 51 was rejected while the cache and the counter
\* already held entries
C5_Witness ==
    \E p \in Procs :
        /\ req[p].eins = LongBatch(MAX_BATCH_SIZE + 1)
        /\ response[p] = BatchTooLargeResponse
        /\ cache # <<>>
        /\ Counter > 0

\* The step in which lookup i of request p reads the cache
CacheReadStep(p, i) ==
    \/ /\ req[p].kind \in {"single", "public"}
       /\ i = 1
       /\ pc[p] = "rl_ok"
       /\ pc'[p] # "rl_ok"
    \/ /\ req[p].kind = "batch"
       /\ i \in DOMAIN task[p]
       /\ task[p][i].tpc = "cache_get"
       /\ task'[p][i].tpc # "cache_get"

\* The identifier lookup i of request p is about
LookupDigits(p, i) ==
    IF req[p].kind = "batch" THEN ein_to_digits(batch[p].unique_eins[i])
    ELSE DigitsOf(req[p].eins[1])

\* C9: a lookup that finds the not-found sentinel ends as not found without
\* aggregation or source fetch; one that finds a record returns that record
\* without any fetch; only when the key is absent is the aggregation invoked
C9_CacheDecidesLookup ==
    /\ [][\A p \in Procs : \A i \in 1 .. Len(task'[p]) :
            CacheReadStep(p, i) =>
                LET held == RedisGet(cache, CacheKey(LookupDigits(p, i)))
                    t == task'[p][i]
                IN  IF held = None
                    THEN /\ t.io = <<"cache_get", "verify_organization">>
                         /\ response'[p] = None
                    ELSE /\ t.io = <<"cache_get">>
                         /\ t.tpc = "done"
                         /\ IF held = NotFoundSentinel
                            THEN /\ t.data = None
                                 /\ t.error = NotFoundError(t.normalized)
                                 /\ req[p].kind # "batch" => response'[p].status = 404
                            ELSE /\ model_dump(t.data) = held
                                 /\ req[p].kind # "batch"
                                       => response'[p] = [status |-> 200, body |-> held]]_vars
    /\ [](\A p \in Procs : \A i \in DOMAIN task[p] :
            task[p][i].hit => task[p][i].io = <<"cache_get">>)

\* C9 witness: in one batch, one identifier hit the sentinel and ended as
\* not found without a fetch, the other missed and was aggregated
C9_Witness ==
    \E p \in Procs : \E i, j \in DOMAIN task[p] :
        /\ task[p][i].hit
        /\ task[p][i].error = NotFoundError(task[p][i].normalized)
        /\ task[p][i].io = <<"cache_get">>
        /\ ~task[p][j].hit
        /\ Did(task[p][j], "fetch_organization")

\* The step in which lookup i of request p writes the cache
CacheWriteStep(p, i) ==
    /\ i \in DOMAIN task[p]
    /\ task[p][i].tpc = "cache_set"
    /\ task'[p][i].tpc = "done"

\* C10: the write of a lookup that missed stores the record with a TTL of 7
\* days, or the sentinel with a TTL of 24 hours; a lookup that hit writes
\* nothing, and no other step extends an entry's TTL
C10_WriteThroughTTL ==
    /\ [][\A p \in Procs : \A i \in DOMAIN task[p] :
            CacheWriteStep(p, i) =>
                LET t == task[p][i]
                    key == CacheKey(ein_to_digits(t.normalized))
                IN  /\ ~t.hit
                    /\ key \in DOMAIN cache'
                    /\ cache'[key] =
                          IF t.data # None
                          THEN [val |-> model_dump(t.data), ttl |-> cache_ttl_seconds]
                          ELSE [val |-> NotFoundSentinel, ttl |-> cache_404_ttl_seconds]]_vars
    /\ [][(\A p \in Procs : \A i \in DOMAIN task[p] : ~CacheWriteStep(p, i))
            => \A k \in DOMAIN cache' :
                  /\ k \in DOMAIN cache
                  /\ cache'[k].val = cache[k].val
                  /\ cache'[k].ttl <= cache[k].ttl]_vars
    /\ [](\A p \in Procs : \A i \in DOMAIN task[p] :
            task[p][i].hit => ~Did(task[p][i], "cache_set"))

\* C10 witness: a record written a day ago was hit and still has six days
\* left, while a sentinel written now has 24 hours
C10_Witness ==
    \E p \in Procs : \E i \in DOMAIN task[p] :
        LET key == CacheKey(ein_to_digits(task[p][i].normalized))
        IN  /\ task[p][i].hit
            /\ task[p][i].data # None
            /\ key \in DOMAIN cache
            /\ cache[key].ttl = cache_ttl_seconds - cache_404_ttl_seconds
            /\ \E k \in DOMAIN cache :
                  cache[k] = [val |-> NotFoundSentinel, ttl |-> cache_404_ttl_seconds]

\* C11 as claimed: a lookup writes the not-found sentinel and ends as not
\* found only after the registry confirmed absence (a not-found response or
\* a stub record); one whose registry request failed writes no sentinel
C11_SentinelOnlyWhenConfirmed ==
    [][\A p \in Procs : \A i \in DOMAIN task[p] :
          (CacheWriteStep(p, i) /\ task[p][i].data = None)
              => /\ cache'[CacheKey(ein_to_digits(task[p][i].normalized))].val
                        = NotFoundSentinel
                 /\ task[p][i].registry \in {"not_found", "stub"}]_vars

-----------------------------------------------------------------------------
(* EIN workload: a caller applies validate_ein to one input string.        *)

MaxPad == 2            \* longest run of characters put before and after the digits

\* \d{9}
EinLength == 9

\* The characters inputs are made of besides digits
RECURSIVE StringsOver(_, _)
StringsOver(chars, n) ==
    IF n = 0 THEN {<<>>}
    ELSE LET shorter == StringsOver(chars, n - 1)
         IN  shorter \cup {Append(s, c) : s \in {t \in shorter : Len(t) = n - 1}, c \in chars}

\* The inputs of validate_ein: every string of EinLength digits over two
\* digits, bare and dashed; and digit runs of eight, nine and ten digits, and
\* nine digits with one character put after the second, with up to MaxPad
\* characters before and after them
EinInputs ==
    LET PadChars == {"-", " ", "\n", "x"}
        NineDigitStrings == {s \in StringsOver({"1", "9"}, EinLength) : Len(s) = EinLength}
        d == [i \in 1 .. EinLength + 1 |-> IF i % 2 = 1 THEN "1" ELSE "9"]
        DigitCores ==
            {SubSeq(d, 1, n) : n \in {EinLength - 1, EinLength, EinLength + 1}}
                \cup {SubSeq(d, 1, 2) \o <<c>> \o SubSeq(d, 3, EinLength) : c \in PadChars}
    IN  NineDigitStrings \cup {Dashed(e) : e \in NineDigitStrings}
            \cup {pre \o core \o post : pre \in StringsOver(PadChars, MaxPad),
                                        core \in DigitCores,
                                        post \in StringsOver(PadChars, MaxPad)}

InitEin ==
    /\ InitCommon
    /\ quota = <<>>
    /\ pc = [p \in Procs |-> "idle"]
    /\ \E ein \in EinInputs :
          req = [p \in Procs |-> IF p = 1 THEN [kind |-> "validate_ein", eins |-> <<ein>>]
                                 ELSE NoRequest]

\* normalized = validate_ein(ein)
CallValidateEin(p) ==
    /\ pc[p] = "idle"
    /\ req[p].kind = "validate_ein"
    /\ response' = [response EXCEPT ![p] = [value |-> validate_ein(req[p].eins[1])]]
    /\ pc' = [pc EXCEPT ![p] = "done"]
    /\ UNCHANGED <<cache, quota, now, ticks, api_keys, req, rlcall, calls, batch, task,
                   accepted, denied, effect, debits>>

NextEin == \E p \in Procs : CallValidateEin(p)

SpecEin == InitEin /\ [][NextEin]_vars

-----------------------------------------------------------------------------
(* Properties of the EIN utilities, checked under SpecEin *)

IsDigitString(s, n) == Len(s) = n /\ \A i \in 1 .. Len(s) : s[i] \in Digits

\* XX-XXXXXXX
IsCanonicalEin(s) ==
    /\ Len(s) = EinLength + 1
    /\ s[3] = "-"
    /\ \A i \in (1 .. Len(s)) \ {3} : s[i] \in Digits

\* C12: for a nine-digit string d, validate_ein of d and of its dashed form
\* return the same canonical XX-XXXXXXX, whose digits are d, so that both
\* spellings have the cache key verify:<d> and cost a batch one unit
C12_SpellingsNormalizeAlike ==
    \A p \in Procs :
        (pc[p] = "done" /\ req[p].kind = "validate_ein") =>
            LET ein == req[p].eins[1]
                value == response[p].value
            IN  \A d \in {RemoveDashes(ein)} :
                    (IsDigitString(d, EinLength) /\ ein \in {d, Dashed(d)}) =>
                        /\ value = Dashed(d)
                        /\ IsCanonicalEin(value)
                        /\ ein_to_digits(value) = d
                        /\ CacheKey(ein_to_digits(value)) = <<"verify:">> \o d
                        /\ BatchCost(UniqueEins(MapValues(<<d, Dashed(d)>>, {}), {})) = 1

\* C12 witness: a dashed nine-digit input was normalized
C12_Witness ==
    \E p \in Procs :
        /\ pc[p] = "done"
        /\ req[p].kind = "validate_ein"
        /\ req[p].eins[1] = <<"9", "1", "-", "9", "9", "1", "1", "9", "9", "1">>
        /\ response[p].value = req[p].eins[1]

\* C13 as claimed: validate_ein returns a value exactly when the input
\* without its surrounding whitespace and its dashes is nine digits, and
\* every value it returns is two digits, a dash and seven digits
C13_AcceptsExactlyNineDigits ==
    \A p \in Procs :
        (pc[p] = "done" /\ req[p].kind = "validate_ein") =>
            LET ein == req[p].eins[1]
                value == response[p].value
            IN  /\ (value # None) <=> IsDigitString(RemoveDashes(Strip(ein)), EinLength)
                /\ value # None => IsCanonicalEin(value)

-----------------------------------------------------------------------------
(* The aggregation alone: verify_organization on one identifier, with every
   collaborator's answer fixed beforehand, as the tests of the aggregation
   fix them with mocks *)

MaxFilings == 2        \* longest filing index a registry answer carries

\* A JSON object with or without the key k
Field(k, values) == {<<>>} \cup {[x \in {k} |-> v] : v \in values}

\* fetch_organization's answers: None; the fragments the stub test tells
\* apart; registered organizations with every raw status code; and the
\* organization with filing indexes of every length
RegistryAnswers ==
    LET StubOrgs ==
            {a @@ b @@ c :
                a \in Field("subsection_code", {0, 3}),
                b \in Field("ruling_date", {"", "1903-12"}),
                c \in Field("name", {StubName, OrgName(EinA)})}
        StatusCodes ==
            {JStr(""), JInt(0), JInt(1), JInt(2), JInt(3), JStr("01"), JStr("02"),
             JStr("1"), JStr("2"), JStr("3"), JStr("A")}
        StatusOrgs ==
            {[name |-> OrgName(EinA), subsection_code |-> 3, ruling_date |-> "1903-12"] @@ st :
                st \in Field("exempt_organization_status_code", StatusCodes)}
    IN  {None}
            \cup {[organization |-> o, filings_with_data |-> FilingIndex(1)] :
                    o \in StubOrgs \cup StatusOrgs}
            \cup {[organization |-> ProviderResponse(EinA, "org").organization,
                   filings_with_data |-> FilingIndex(n)] : n \in 0 .. MaxFilings}

JANE == <<"J", "A", "N", "E">>

\* get_filing_data's answers: None, or the parts the archive parser produced
ArchiveAnswers ==
    LET OfficerLists ==
            {<<Officer(JaneDoe, <<500>>)>>,
             <<Officer(JANE, <<500>>), Officer(JohnRoe, <<0>>)>>,
             <<Officer(JohnRoe, <<>>)>>}
        ScheduleJLists ==
            {<<ScheduleJEntry(JaneDoe, 400)>>,
             <<ScheduleJEntry(JANE, 400)>>,
             <<ScheduleJEntry(Lower(JaneDoe), 300), ScheduleJEntry(JANE, 400)>>,
             <<[name |-> JohnRoe]>>}
    IN  {r @@ e @@ o @@ j :
            r \in Field("revenue_breakdown", {RevenueData}),
            e \in Field("expense_breakdown", {ExpenseData}),
            o \in Field("officers", OfficerLists),
            j \in Field("schedule_j", ScheduleJLists)}

\* _SCRAPERS
ScraperLabels == <<"CA", "NY", "TX">>

Registration(label) ==
    [state |-> label, status |-> "Current", registration_number |-> <<"CT-", label>>]

\* Mutant: the exception of a scraper is handed on as its result
_safe_check_Unguarded(label, outcome) ==
    IF outcome = "registered" THEN Registration(label)
    ELSE IF outcome = "raise" THEN [state |-> label, raised |-> TRUE]
    ELSE None

\* _safe_check: what the scraper returns, or None when it raises
_safe_check(label, outcome) ==
    IF outcome = "registered" THEN Registration(label) ELSE None

\* return [r for r in results if r is not None]
GatherResults(results) ==
    LET keep(r) == r # None
    IN  SelectSeq(results, keep)

\* state_scrapers.check_all_states: the registrations of the scrapers that
\* yield one, in the order of _SCRAPERS; a scraper that returns None or
\* raises is skipped
scrapers_check_all_states(outcome) ==
    GatherResults([i \in DOMAIN ScraperLabels |->
                      _safe_check(ScraperLabels[i], outcome[ScraperLabels[i]])])

AggregateCall(ein, pp_data, filing_data, patched, state_reg_data, scrapers) ==
    [kind |-> "aggregate", eins |-> <<ein>>, pp_data |-> pp_data,
     filing_data |-> filing_data, patched |-> patched,
     state_reg_data |-> state_reg_data, scrapers |-> scrapers]

\* The calls: each collaborator's answers varied against fixed answers of
\* the others.  A scraper registers the identifier, returns None or raises;
\* state_registry.check_all_states is the module's own, or replaced by what a
\* test makes it return
AggregateInputs ==
    LET base == [organization |-> ProviderResponse(EinA, "org").organization,
                 filings_with_data |-> FilingIndex(1)]
        labels == {ScraperLabels[i] : i \in DOMAIN ScraperLabels}
        NoScraperYields == [l \in labels |-> "none"]
        ScraperAnswers == [labels -> {"registered", "none", "raise"}]
        PatchedStateAnswers ==
            {<<>>, <<Registration("CA")>>, <<Registration("CA"), Registration("NY")>>}
    IN  {AggregateCall(BadEin, base, None, FALSE, <<>>, NoScraperYields)}
        \cup {AggregateCall(Dashed(EinA), pp, fd, FALSE, <<>>, NoScraperYields) :
                pp \in RegistryAnswers, fd \in {None, FilingResponse("data")}}
        \cup {AggregateCall(EinA, [base EXCEPT !.filings_with_data = FilingIndex(n)], fd,
                            FALSE, <<>>, NoScraperYields) :
                n \in 0 .. MaxFilings, fd \in ArchiveAnswers}
        \cup {AggregateCall(EinA, base, FilingResponse("data"), FALSE, <<>>, sc) :
                sc \in ScraperAnswers}
        \cup {AggregateCall(EinA, base, FilingResponse("data"), TRUE, st, sc) :
                st \in PatchedStateAnswers,
                sc \in {NoScraperYields, [NoScraperYields EXCEPT !["CA"] = "registered"]}}

InitAggregate ==
    /\ InitCommon
    /\ quota = <<>>
    /\ pc = [p \in Procs |-> "idle"]
    /\ \E call \in AggregateInputs :
          req = [p \in Procs |-> IF p = 1 THEN call ELSE NoRequest]

\* normalized = validate_ein(ein_raw); if not normalized: return None
CallVerifyOrganization(p) ==
    /\ pc[p] = "idle"
    /\ req[p].kind = "aggregate"
    /\ LET normalized == validate_ein(req[p].eins[1])
       IN  IF normalized = None
           THEN /\ response' = [response EXCEPT ![p] = [value |-> None]]
                /\ pc' = [pc EXCEPT ![p] = "done"]
                /\ UNCHANGED task
           ELSE /\ task' = [task EXCEPT ![p] = <<[NewTask(normalized) EXCEPT !.tpc = "registry"]>>]
                /\ pc' = [pc EXCEPT ![p] = "aggregate"]
                /\ UNCHANGED response
    /\ UNCHANGED <<cache, quota, now, ticks, api_keys, req, rlcall, calls, batch,
                   accepted, denied, effect, debits>>

\* The registry answered: return None, or go on to the archive
aggregate_registry(p) ==
    /\ pc[p] = "aggregate"
    /\ task[p][1].tpc = "registry"
    /\ LET t == RegistryStep(task[p][1], req[p].pp_data)
       IN  /\ task' = [task EXCEPT ![p] = <<t>>]
           /\ IF t.tpc = "cache_set"
              THEN /\ response' = [response EXCEPT ![p] = [value |-> None]]
                   /\ pc' = [pc EXCEPT ![p] = "done"]
              ELSE UNCHANGED <<response, pc>>
    /\ UNCHANGED <<cache, quota, now, ticks, api_keys, req, rlcall, calls, batch,
                   accepted, denied, effect, debits>>

\* state_registry.check_all_states as the enricher module reaches it: the
\* function of state_registry.py, or the tests' replacement of it
StateRegistryAnswer(call, digits) ==
    IF call.patched THEN call.state_reg_data ELSE check_all_states(digits)

\* The archive answered: the state check is awaited next
aggregate_filing(p) ==
    /\ pc[p] = "aggregate"
    /\ task[p][1].tpc = "filing"
    /\ task' = [task EXCEPT ![p] = <<ArchiveStep(task[p][1])>>]
    /\ UNCHANGED <<cache, quota, now, ticks, api_keys, pc, req, rlcall, calls, batch, response,
                   accepted, denied, effect, debits>>

\* The state check answered: the record is returned
aggregate_states(p) ==
    /\ pc[p] = "aggregate"
    /\ task[p][1].tpc = "states"
    /\ LET digits == ein_to_digits(task[p][1].normalized)
           t == StatesStep(task[p][1], req[p].filing_data,
                           StateRegistryAnswer(req[p], digits))
       IN  /\ task' = [task EXCEPT ![p] = <<t>>]
           /\ response' = [response EXCEPT ![p] = [value |-> t.data]]
    /\ pc' = [pc EXCEPT ![p] = "done"]
    /\ UNCHANGED <<cache, quota, now, ticks, api_keys, req, rlcall, calls, batch,
                   accepted, denied, effect, debits>>

NextAggregate ==
    \E p \in Procs :
        \/ CallVerifyOrganization(p)
        \/ aggregate_registry(p)
        \/ aggregate_filing(p)
        \/ aggregate_states(p)

SpecAggregate == InitAggregate /\ [][NextAggregate]_vars

-----------------------------------------------------------------------------
(* Claims about the aggregation *)

\* verify_organization returned to process p
Aggregated(p) == pc[p] = "done" /\ req[p].kind = "aggregate"

\* ... and returned a record
AggregatedRecord(p) == Aggregated(p) /\ response[p].value # None

\* The registry fragment the call was given
FragmentOf(p) == Get(req[p].pp_data, "organization")

\* C14: if the registry fragment has no subsection code (none, or the empty
\* code 0), no ruling date (none, or an empty one) and the known stub name,
\* aggregate returns absent and issues no archive or state fetch; a fragment
\* that has a subsection code or a ruling date, or another name, is treated
\* as a real organization: the archive and the state check are asked and a
\* record of that fragment is returned
C14_StubIsAbsent ==
    \A p \in Procs :
        (Aggregated(p) /\ validate_ein(req[p].eins[1]) # None /\ req[p].pp_data # None) =>
            LET org == FragmentOf(p)
                no_subsection == "subsection_code" \notin DOMAIN org \/ org.subsection_code = 0
                no_ruling_date == "ruling_date" \notin DOMAIN org \/ org.ruling_date = ""
                stub_name == "name" \in DOMAIN org /\ org.name = "Unknown Organization"
                t == task[p][1]
            IN  IF no_subsection /\ no_ruling_date /\ stub_name
                THEN /\ response[p].value = None
                     /\ t.io = <<"fetch_organization">>
                ELSE /\ response[p].value # None
                     /\ response[p].value.legal_name = Opt(org, "name")
                     /\ t.io = <<"fetch_organization", "get_filing_data", "check_all_states">>

\* C14 witness: a fragment with the stub name, the code 0 and no ruling date
\* was answered with absent after the registry fetch alone
C14_Witness ==
    \E p \in Procs :
        /\ Aggregated(p)
        /\ req[p].pp_data # None
        /\ FragmentOf(p) = [subsection_code |-> 0, name |-> StubName]
        /\ response[p].value = None
        /\ task[p][1].io = <<"fetch_organization">>

\* C15: for every raw status code of the registry, status is active iff the
\* code is in the active set, unknown iff the code is absent or empty, revoked
\* otherwise; and the revoked flag is true iff status is revoked
C15_StatusFromRawCode ==
    \A p \in Procs :
        AggregatedRecord(p) =>
            LET raw_status == Get(FragmentOf(p), "exempt_organization_status_code")
                active == {JInt(1), JInt(2), JStr("01"), JStr("02"), JStr("1"), JStr("2")}
                record == response[p].value
            IN  /\ record.status \in {"active", "unknown", "revoked"}
                /\ record.status = "active" <=> raw_status \in active
                /\ record.status = "unknown" <=> raw_status \in {None, JStr("")}
                /\ record.revoked <=> record.status = "revoked"

\* C15 witness: the code "01" was reported active
C15_Witness ==
    \E p \in Procs :
        /\ AggregatedRecord(p)
        /\ Get(FragmentOf(p), "exempt_organization_status_code") = JStr("01")
        /\ response[p].value.status = "active"
        /\ ~response[p].value.revoked

\* C16: the financial summary is absent iff the filing index is empty and
\* both breakdowns are absent; with a non-empty index it carries the top-line
\* figures of the most recent index entry; each breakdown is attached iff the
\* archive parser produced it, independently of the other
C16_FinancialSummary ==
    \A p \in Procs :
        AggregatedRecord(p) =>
            LET filings == Get(req[p].pp_data, "filings_with_data")
                fd == req[p].filing_data
                has_revenue == "revenue_breakdown" \in DOMAIN fd
                has_expense == "expense_breakdown" \in DOMAIN fd
                fin == response[p].value.financials
            IN  /\ fin = None <=> (filings = <<>> /\ ~has_revenue /\ ~has_expense)
                /\ fin # None =>
                    /\ fin.revenue_breakdown # None <=> has_revenue
                    /\ fin.expense_breakdown # None <=> has_expense
                    /\ has_revenue =>
                          \A f \in RevenueFields :
                              fin.revenue_breakdown[f] = Opt(fd.revenue_breakdown, f)
                    /\ has_expense =>
                          \A f \in ExpenseFields :
                              fin.expense_breakdown[f] = Opt(fd.expense_breakdown, f)
                    /\ IF filings # <<>>
                       THEN /\ fin.tax_year = <<filings[1].tax_prd_yr>>
                            /\ fin.revenue = <<filings[1].totrevenue>>
                            /\ fin.expenses = Opt(filings[1], "totfuncexpns")
                            /\ fin.assets = Opt(filings[1], "totassetsend")
                            /\ fin.liabilities = Opt(filings[1], "totliabend")
                       ELSE /\ fin.tax_year = <<>>
                            /\ fin.revenue = <<>>
                            /\ fin.expenses = <<>>
                            /\ fin.assets = <<>>
                            /\ fin.liabilities = <<>>

\* C16 witness: an empty index with a revenue breakdown alone gave a summary
\* of that breakdown only
C16_Witness ==
    \E p \in Procs :
        /\ AggregatedRecord(p)
        /\ Get(req[p].pp_data, "filings_with_data") = <<>>
        /\ "revenue_breakdown" \in DOMAIN req[p].filing_data
        /\ "expense_breakdown" \notin DOMAIN req[p].filing_data
        /\ response[p].value.financials # None
        /\ response[p].value.financials.revenue = <<>>
        /\ response[p].value.financials.revenue_breakdown.total_revenue = <<3400>>
        /\ response[p].value.financials.expense_breakdown = None

\* C17: an officer in the record carries a compensation detail iff some
\* detail entry's name equals the officer's name ignoring case, and the
\* detail then holds that entry's values; an officer without a match has its
\* detail absent, never a zero-filled detail
C17_DetailByNameIgnoringCase ==
    \A p \in Procs :
        AggregatedRecord(p) =>
            LET fd == req[p].filing_data
                officers == Get(fd, "officers")
                entries == Get(fd, "schedule_j")
                personnel == response[p].value.personnel
                matches(i) == {j \in DOMAIN entries :
                                  Lower(entries[j].name) = Lower(officers[i].name)}
            IN  /\ Len(personnel) = Len(officers)
                /\ \A i \in DOMAIN personnel :
                      /\ personnel[i].name = officers[i].name
                      /\ personnel[i].compensation = officers[i].compensation
                      /\ IF matches(i) = {}
                         THEN personnel[i].compensation_detail = None
                         ELSE \E j \in matches(i) :
                                 personnel[i].compensation_detail =
                                     [f \in CompensationFields |-> Opt(entries[j], f)]

\* C17 witness: an officer written in capitals took the detail of the entry
\* written in mixed case, and the officer after it, without an entry, none
C17_Witness ==
    \E p \in Procs :
        /\ AggregatedRecord(p)
        /\ Len(response[p].value.personnel) = 2
        /\ response[p].value.personnel[1].name = JANE
        /\ Get(req[p].filing_data, "schedule_j") = <<ScheduleJEntry(JaneDoe, 400)>>
        /\ response[p].value.personnel[1].compensation_detail.base_compensation = <<400>>
        /\ response[p].value.personnel[1].compensation_detail.bonus_and_incentive = <<>>
        /\ response[p].value.personnel[2].compensation = <<0>>
        /\ response[p].value.personnel[2].compensation_detail = None

\* C19 as claimed: the state-registration list of the record equals the
\* result of state_scrapers.check_all_states for the identifier, so that a
\* registration a jurisdiction scraper yields appears in the record
C19_RegistrationsFromScrapers ==
    \A p \in Procs :
        (AggregatedRecord(p) /\ ~req[p].patched) =>
            LET found == scrapers_check_all_states(req[p].scrapers)
            IN  response[p].value.state_registrations =
                    [i \in DOMAIN found |-> StateRegistration(found[i])]

\* C20 as claimed: the provenance field state_registries is set exactly when
\* the record's state-registration list is non-empty
C20_StateRegistriesProvenance ==
    \A p \in Procs :
        AggregatedRecord(p) =>
            LET record == response[p].value
            IN  record.data_sources.state_registries # None
                    <=> record.state_registrations # <<>>

-----------------------------------------------------------------------------
(* The officer table of a filing: _parse_officers on the Part VII groups of
   one return.  An element is None when the group lacks it, else a record of
   its text; a text is None or a non-empty string *)

MaxText == 2           \* longest text of a compensation element

\* The value of a string of decimal digits
NatOf(ds) ==
    LET DigitValue(c) == CHOOSE n \in 0 .. 9 : ToString(n) = c
        RECURSIVE acc(_, _)
        acc(rest, n) == IF rest = <<>> THEN n
                        ELSE acc(Tail(rest), 10 * n + DigitValue(Head(rest)))
    IN  acc(ds, 0)

\* float(text): a sign, then digits with at most one point and at least one
\* digit; anything else raises ValueError
FloatParses(text) ==
    LET body == IF text # <<>> /\ Head(text) = "-" THEN Tail(text) ELSE text
    IN  /\ \A i \in DOMAIN body : body[i] \in Digits \cup {"."}
        /\ \E i \in DOMAIN body : body[i] \in Digits
        /\ Cardinality({i \in DOMAIN body : body[i] = "."}) <= 1

\* int(float(text)): the digits before the point, truncated toward zero
IntOfFloat(text) ==
    LET negative == Head(text) = "-"
        body == IF negative THEN Tail(text) ELSE text
        points == {i \in DOMAIN body : body[i] = "."}
        whole == IF points = {} THEN body
                 ELSE SubSeq(body, 1, (CHOOSE i \in points : TRUE) - 1)
    IN  IF negative THEN 0 - NatOf(whole) ELSE NatOf(whole)

_parse_int(el) ==
    IF el # None /\ el.text # None
    THEN IF FloatParses(el.text) THEN IntOfFloat(el.text) ELSE 0
    ELSE 0

\* _title_case, for names of one word: a name in capitals is put in title case
_title_case(s) ==
    LET UpperChar(c) ==
            CASE c = "j" -> "J" [] c = "a" -> "A" [] c = "n" -> "N" [] c = "e" -> "E"
              [] c = "o" -> "O" [] c = "h" -> "H" [] OTHER -> c
    IN  IF s # <<>> /\ s = [i \in DOMAIN s |-> UpperChar(s[i])]
        THEN <<UpperChar(Head(s))>> \o Lower(Tail(s))
        ELSE s

\* Mutant: compensation data needs both elements
HasCompData_Both(comp_el, other_comp_el) == comp_el # None /\ other_comp_el # None

\* has_comp_data = comp_el is not None or other_comp_el is not None
HasCompData(comp_el, other_comp_el) == comp_el # None \/ other_comp_el # None

\* One Form990PartVIISectionAGrp: its entry, or None when it has no name
ParseOfficer(person) ==
    LET name == IF person.name_el # None THEN person.name_el.text
                ELSE IF person.biz_name_el # None THEN person.biz_name_el.text
                ELSE None
        comp == _parse_int(person.comp_el)
        other_comp == _parse_int(person.other_comp_el)
        total_comp == IF HasCompData(person.comp_el, person.other_comp_el)
                      THEN <<comp + other_comp>> ELSE <<>>
    IN  IF name = None THEN None
        ELSE [name |-> _title_case(name), title |-> <<>>, compensation |-> total_comp,
              hours_per_week |-> <<>>]

_parse_officers(officers) ==
    LET entries == [i \in DOMAIN officers |-> ParseOfficer(officers[i])]
        named(e) == e # None
    IN  SelectSeq(entries, named)

Element(text) == [text |-> text]

\* Absent, empty, and every text up to MaxText characters
AmountElements ==
    {None} \cup {Element(t) : t \in StringsOver({"1", "5", ".", "-", "x"}, MaxText)}

PersonGroup(name_el, biz_name_el, comp_el, other_comp_el) ==
    [name_el |-> name_el, biz_name_el |-> biz_name_el, comp_el |-> comp_el,
     other_comp_el |-> other_comp_el]

\* The tables: none, one group with or without a name and with every pair
\* of compensation elements, and two groups
OfficerTables ==
    LET PersonGroups ==
            {PersonGroup(n, None, c, o) :
                n \in {None, Element(JANE)}, c \in AmountElements, o \in AmountElements}
                \cup {PersonGroup(None, Element(JohnRoe), None, None)}
        SecondGroups ==
            {PersonGroup(Element(JohnRoe), None, None, None),
             PersonGroup(None, None, Element(<<"5">>), None),
             PersonGroup(None, Element(JaneDoe), None, Element(<<"1">>))}
    IN  {<<>>} \cup {<<g>> : g \in PersonGroups}
               \cup {<<g, h>> : g \in {PersonGroup(Element(JaneDoe), None, c, None) :
                                          c \in AmountElements},
                                h \in SecondGroups}

InitOfficers ==
    /\ InitCommon
    /\ quota = <<>>
    /\ pc = [p \in Procs |-> "idle"]
    /\ \E officers \in OfficerTables :
          req = [p \in Procs |->
                    IF p = 1 THEN [kind |-> "parse_officers", eins |-> <<>>,
                                   officers |-> officers]
                    ELSE NoRequest]

CallParseOfficers(p) ==
    /\ pc[p] = "idle"
    /\ req[p].kind = "parse_officers"
    /\ response' = [response EXCEPT ![p] = [value |-> _parse_officers(req[p].officers)]]
    /\ pc' = [pc EXCEPT ![p] = "done"]
    /\ UNCHANGED <<cache, quota, now, ticks, api_keys, req, rlcall, calls, batch, task,
                   accepted, denied, effect, debits>>

NextOfficers == \E p \in Procs : CallParseOfficers(p)

SpecOfficers == InitOfficers /\ [][NextOfficers]_vars

\* The groups that have a name, in the order of the table
NamedGroups(officers) ==
    LET named(g) == g.name_el # None \/ g.biz_name_el # None
    IN  SelectSeq(officers, named)

\* C18: for each parsed officer entry, total compensation is a + b, where a
\* and b are the two reportable-compensation fields and an absent field
\* counts as 0, except that when both fields are absent the total is absent
\* rather than 0
C18_TotalCompensation ==
    \A p \in Procs :
        (pc[p] = "done" /\ req[p].kind = "parse_officers") =>
            LET groups == NamedGroups(req[p].officers)
                result == response[p].value
                amount(el) == IF el = None THEN 0 ELSE _parse_int(el)
            IN  /\ Len(result) = Len(groups)
                /\ \A i \in DOMAIN result :
                      LET g == groups[i]
                      IN  IF g.comp_el = None /\ g.other_comp_el = None
                          THEN result[i].compensation = <<>>
                          ELSE result[i].compensation =
                                   <<amount(g.comp_el) + amount(g.other_comp_el)>>

\* C18 witness: a table of an officer with one field of 15 and the other
\* absent, and an officer with neither field, was parsed into a total of 15
\* and an absent total
C18_Witness ==
    \E p \in Procs :
        /\ pc[p] = "done"
        /\ req[p].kind = "parse_officers"
        /\ req[p].officers = <<PersonGroup(Element(JaneDoe), None, Element(<<"1", "5">>), None),
                                PersonGroup(Element(JohnRoe), None, None, None)>>
        /\ Len(response[p].value) = 2
        /\ response[p].value[1].compensation = <<15>>
        /\ response[p].value[2].compensation = <<>>

-----------------------------------------------------------------------------
(* Claims about the order of the source fetches *)

\* C21 as claimed: within one aggregate call the filing-archive fetch and
\* the state-registry check are in flight at the same time: while the
\* archive fetch has not completed, the state check has been issued already
C21_ArchiveAndStateCheckOverlap ==
    \A p \in Procs :
        (pc[p] = "aggregate" /\ req[p].kind = "aggregate") =>
            LET t == task[p][1]
                archive_in_flight == t.tpc = "filing"
                state_check_issued == t.tpc = "states" \/ Did(t, "check_all_states")
            IN  archive_in_flight => state_check_issued

-----------------------------------------------------------------------------
(* The scraper orchestrator: state_scrapers.check_all_states on one
   identifier.  asyncio.gather starts one _safe_check per entry of
   _SCRAPERS; they complete in any order *)

InitScrapers ==
    /\ InitCommon
    /\ quota = <<>>
    /\ pc = [p \in Procs |-> "idle"]
    /\ \E ein \in {EinA, EinB} :
          req = [p \in Procs |-> IF p = 1 THEN [kind |-> "check_all_states", eins |-> <<ein>>]
                                 ELSE NoRequest]

\* asyncio.gather(*[_safe_check(...) for ... in _SCRAPERS]): every scraper
\* function is called
scrapers_gather(p) ==
    /\ pc[p] = "idle"
    /\ req[p].kind = "check_all_states"
    /\ task' = [task EXCEPT ![p] =
                    [i \in DOMAIN ScraperLabels |->
                        [label |-> ScraperLabels[i], tpc |-> "running", calls |-> 1,
                         outcome |-> "none", result |-> None]]]
    /\ pc' = [pc EXCEPT ![p] = "gather_states"]
    /\ UNCHANGED <<cache, quota, now, ticks, api_keys, req, rlcall, calls, batch, response,
                   accepted, denied, effect, debits>>

\* One _safe_check ends: its scraper registered the identifier, returned
\* None, or raised
safe_check_ends(p, i) ==
    /\ pc[p] = "gather_states"
    /\ i \in DOMAIN task[p]
    /\ task[p][i].tpc = "running"
    /\ \E outcome \in {"registered", "none", "raise"} :
          task' = [task EXCEPT ![p][i] =
                      [@ EXCEPT !.tpc = "done", !.outcome = outcome,
                                !.result = _safe_check(task[p][i].label, outcome)]]
    /\ UNCHANGED <<cache, quota, now, ticks, api_keys, pc, req, rlcall, calls, batch, response,
                   accepted, denied, effect, debits>>

\* gather returned the results in the order of _SCRAPERS
scrapers_return(p) ==
    /\ pc[p] = "gather_states"
    /\ \A i \in DOMAIN task[p] : task[p][i].tpc = "done"
    /\ response' = [response EXCEPT ![p] =
                       [value |-> GatherResults([i \in DOMAIN task[p] |-> task[p][i].result])]]
    /\ pc' = [pc EXCEPT ![p] = "done"]
    /\ UNCHANGED <<cache, quota, now, ticks, api_keys, req, rlcall, calls, batch, task,
                   accepted, denied, effect, debits>>

NextScrapers ==
    \E p \in Procs :
        \/ scrapers_gather(p)
        \/ \E i \in DOMAIN ScraperLabels : safe_check_ends(p, i)
        \/ scrapers_return(p)

SpecScrapers == InitScrapers /\ [][NextScrapers]_vars

\* C22: for every combination of per-scraper outcomes (registration, absent,
\* exception), check_all_states raises nothing and returns exactly the
\* registrations of the scrapers that succeeded, at most one per
\* jurisdiction, with every scraper invoked exactly once per call
C22_OrchestratorIsolatesScrapers ==
    \A p \in Procs :
        (pc[p] = "done" /\ req[p].kind = "check_all_states") =>
            LET found == response[p].value
                registered == {i \in DOMAIN task[p] : task[p][i].outcome = "registered"}
            IN  /\ \A i \in DOMAIN task[p] : task[p][i].calls = 1
                /\ Len(found) = Cardinality(registered)
                /\ \A k \in DOMAIN found :
                      /\ found[k] \in {Registration(task[p][i].label) : i \in registered}
                      /\ \A j \in DOMAIN found : found[j].state = found[k].state => j = k

\* C22 witness: California raised, New York registered the identifier and
\* Texas had nothing; the result is the New York registration alone
C22_Witness ==
    \E p \in Procs :
        /\ pc[p] = "done"
        /\ req[p].kind = "check_all_states"
        /\ [i \in DOMAIN task[p] |-> task[p][i].outcome] = <<"raise", "registered", "none">>
        /\ response[p].value = <<Registration("NY")>>

-----------------------------------------------------------------------------
(* The filing archive: irs_990.get_filing_data on one identifier, called up
   to MaxCalls times in a row against one Redis.  What each index request
   and each archive request meets is drawn when the request is made *)

FILING_CACHE_TTL == 30 * 24 * 3600

\* json.dumps(value): the text stored in Redis; the text of {} is not empty,
\* so that cache_get tells a stored {} from a missing key
Dumps(value) == <<value>>

\* _recent_years(), with 2024 as the current year
_recent_years == <<2024, 2023, 2022>>

IndexOutcomes == {"match", "match_no_zip", "no_match", "status_error", "conn_error"}
ArchiveOutcomes == {"data", "zip_error", "missing_member", "bad_xml", "bad_hours"}

\* Mutant: a failed index request is not caught
SearchOutcome_Uncaught(year, outcome) ==
    IF outcome = "conn_error" THEN [raised |-> TRUE, value |-> None]
    ELSE IF outcome \in {"match", "match_no_zip"}
    THEN [raised |-> FALSE,
          value |-> [year |-> year, object_id |-> "202401", tax_period |-> "202312",
                     zip_filename |-> IF outcome = "match" THEN "2024_TEOS_XML_01A" ELSE ""]]
    ELSE [raised |-> FALSE, value |-> None]

\* _search_year_index by what the index request meets: a status other than
\* 200 returns None, an exception is caught and returns None, a scan
\* returns its best match or None
SearchOutcome(year, outcome) ==
    IF outcome \in {"match", "match_no_zip"}
    THEN [raised |-> FALSE,
          value |-> [year |-> year, object_id |-> "202401", tax_period |-> "202312",
                     zip_filename |-> IF outcome = "match" THEN "2024_TEOS_XML_01A" ELSE ""]]
    ELSE [raised |-> FALSE, value |-> None]

\* _fetch_and_parse_all by what the archive request meets: no archive name,
\* a failing RemoteZip, a directory without the member, a document that
\* does not parse and a text float() rejects all return None
_fetch_and_parse_all(filing_info, outcome) ==
    IF filing_info.zip_filename = "" THEN [raised |-> FALSE, value |-> None]
    ELSE IF outcome = "data" THEN [raised |-> FALSE, value |-> FilingResponse("data")]
    ELSE [raised |-> FALSE, value |-> None]

FilingCacheKey(digits) == <<"990filing:">> \o digits

\* What get_filing_data hands to verify_organization, and the record
\* verify_organization then builds from a registered organization
FilingReturn(digits, raised, filing_data) ==
    [raised |-> raised, value |-> filing_data,
     record |-> IF raised THEN None
                ELSE BuildResponse(Dashed(digits),
                                   ProviderResponse(digits, "org").organization,
                                   FilingIndex(1), filing_data, check_all_states(digits))]

InitFiling ==
    /\ InitCommon
    /\ quota = <<>>
    /\ pc = [p \in Procs |-> "idle"]
    /\ req = [p \in Procs |-> IF p = 1 THEN [kind |-> "get_filing_data", eins |-> <<EinA>>]
                              ELSE NoRequest]

\* cached = await cache_get(cache_key) and the hit branch
filing_cache_get(p) ==
    /\ pc[p] \in {"idle", "done"}
    /\ req[p].kind = "get_filing_data"
    /\ calls[p] < MaxCalls
    /\ calls' = [calls EXCEPT ![p] = @ + 1]
    /\ LET digits == req[p].eins[1]
           data == RedisGet(cache, FilingCacheKey(digits))
       IN  IF data # None
           THEN /\ task' = [task EXCEPT ![p] =
                               <<[tpc |-> "done", year |-> 0, filing_info |-> None,
                                  data |-> None, io |-> <<<<"cache_get", 0, "hit">>>>]>>]
                /\ response' = [response EXCEPT ![p] = FilingReturn(digits, FALSE, data[1])]
                /\ pc' = [pc EXCEPT ![p] = "done"]
           ELSE /\ task' = [task EXCEPT ![p] =
                               <<[tpc |-> "index", year |-> 1, filing_info |-> None,
                                  data |-> None, io |-> <<<<"cache_get", 0, "miss">>>>]>>]
                /\ response' = [response EXCEPT ![p] = None]
                /\ pc' = [pc EXCEPT ![p] = "filing"]
    /\ UNCHANGED <<cache, quota, now, ticks, api_keys, req, rlcall, batch,
                   accepted, denied, effect, debits>>

\* `continue`, or the end of the loop over _recent_years()
NextYear(t) ==
    IF t.year < Len(_recent_years)
    THEN [t EXCEPT !.tpc = "index", !.year = @ + 1, !.filing_info = None]
    ELSE [t EXCEPT !.tpc = "cache_set", !.filing_info = None, !.data = None]

\* filing_info = await _search_year_index(ein_digits, year)
filing_search_year(p) ==
    /\ pc[p] = "filing"
    /\ task[p][1].tpc = "index"
    /\ \E outcome \in IndexOutcomes :
          LET t == [task[p][1] EXCEPT !.io = Append(@, <<"index", task[p][1].year, outcome>>)]
              r == SearchOutcome(_recent_years[t.year], outcome)
          IN  IF r.raised
              THEN /\ task' = [task EXCEPT ![p] = <<[t EXCEPT !.tpc = "done"]>>]
                   /\ response' = [response EXCEPT ![p] =
                                      FilingReturn(req[p].eins[1], TRUE, None)]
                   /\ pc' = [pc EXCEPT ![p] = "done"]
              ELSE /\ task' = [task EXCEPT ![p] =
                                  <<IF r.value = None THEN NextYear(t)
                                    ELSE [t EXCEPT !.tpc = "fetch", !.filing_info = r.value]>>]
                   /\ UNCHANGED <<response, pc>>
    /\ UNCHANGED <<cache, quota, now, ticks, api_keys, req, rlcall, calls, batch,
                   accepted, denied, effect, debits>>

\* filing_data = await _fetch_and_parse_all(filing_info)
filing_fetch(p) ==
    /\ pc[p] = "filing"
    /\ task[p][1].tpc = "fetch"
    /\ \E outcome \in ArchiveOutcomes :
          LET t == [task[p][1] EXCEPT !.io = Append(@, <<"fetch", task[p][1].year, outcome>>)]
              r == _fetch_and_parse_all(t.filing_info, outcome)
          IN  IF r.raised
              THEN /\ task' = [task EXCEPT ![p] = <<[t EXCEPT !.tpc = "done"]>>]
                   /\ response' = [response EXCEPT ![p] =
                                      FilingReturn(req[p].eins[1], TRUE, None)]
                   /\ pc' = [pc EXCEPT ![p] = "done"]
              ELSE /\ task' = [task EXCEPT ![p] =
                                  <<IF r.value = None THEN NextYear(t)
                                    ELSE [t EXCEPT !.tpc = "cache_set", !.data = r.value]>>]
                   /\ UNCHANGED <<response, pc>>
    /\ UNCHANGED <<cache, quota, now, ticks, api_keys, req, rlcall, calls, batch,
                   accepted, denied, effect, debits>>

\* await cache_set(cache_key, filing_data, ...) and return filing_data, or
\* await cache_set(cache_key, {}, ...) and return None
filing_cache_set(p) ==
    /\ pc[p] = "filing"
    /\ task[p][1].tpc = "cache_set"
    /\ LET t == task[p][1]
           digits == req[p].eins[1]
       IN  /\ cache' = RedisSet(cache, FilingCacheKey(digits), Dumps(t.data),
                                FILING_CACHE_TTL)
           /\ task' = [task EXCEPT ![p] =
                          <<[t EXCEPT !.tpc = "done",
                                      !.io = Append(@, <<"cache_set", t.year,
                                                         IF t.data = None THEN "empty"
                                                         ELSE "data">>)]>>]
           /\ response' = [response EXCEPT ![p] = FilingReturn(digits, FALSE, t.data)]
    /\ pc' = [pc EXCEPT ![p] = "done"]
    /\ UNCHANGED <<quota, now, ticks, api_keys, req, rlcall, calls, batch,
                   accepted, denied, effect, debits>>

NextFiling ==
    \E p \in Procs :
        \/ filing_cache_get(p)
        \/ filing_search_year(p)
        \/ filing_fetch(p)
        \/ filing_cache_set(p)

SpecFiling == InitFiling /\ [][NextFiling]_vars

\* The requests of the call that process p is in or has just finished
FilingEvents(p, what) ==
    LET io == task[p][1].io
    IN  {io[i] : i \in {j \in DOMAIN io : io[j][1] = what}}

FilingCall(p) == req[p].kind = "get_filing_data" /\ task[p] # <<>>

(* C23: get_filing_data writes the negative (empty) entry only when the index
   search of all three years completed without a match; after a failed index
   request, archive fetch or parse no negative entry is written *)
C23_NegativeEntryOnlyAfterExhaustedSearch ==
    \A p \in Procs :
        (FilingCall(p) /\ FilingEvents(p, "cache_set") # {}
                       /\ \A e \in FilingEvents(p, "cache_set") : e[3] = "empty") =>
            /\ \A e \in FilingEvents(p, "index") : e[3] = "no_match"
            /\ FilingEvents(p, "fetch") = {}
            /\ Cardinality(FilingEvents(p, "index")) = Len(_recent_years)

(* C24: get_filing_data searches the yearly indexes most recent first and,
   once a year's index search has yielded a match, searches no older year's
   index in that call *)
C24_NoOlderYearAfterMatch ==
    \A p \in Procs :
        FilingCall(p) =>
            /\ \A e \in FilingEvents(p, "index") :
                  \A y \in 1..(e[2] - 1) : \E f \in FilingEvents(p, "index") : f[2] = y
            /\ \A e, f \in FilingEvents(p, "index") :
                  e[3] \in {"match", "match_no_zip"} => f[2] <= e[2]

(* C26: whatever the index, archive and XML requests meet, get_filing_data
   raises nothing to verify_organization; when every request failed it
   returns absent, and the aggregation still returns a record *)
C26_FilingFailuresNeverRaised ==
    \A p \in Procs :
        (FilingCall(p) /\ pc[p] = "done") =>
            /\ ~response[p].raised
            /\ response[p].record # None
            /\ response[p].record.ein = Dashed(req[p].eins[1])
            /\ (/\ <<"cache_get", 0, "miss">> \in FilingEvents(p, "cache_get")
                /\ \A e \in FilingEvents(p, "fetch") : e[3] # "data")
               => /\ response[p].value = None
                  /\ response[p].record.personnel = None

C26_Witness ==
    \E p \in Procs :
        /\ FilingCall(p) /\ pc[p] = "done"
        /\ task[p][1].io = << <<"cache_get", 0, "miss">>, <<"index", 1, "conn_error">>,
                              <<"index", 2, "match">>, <<"fetch", 2, "bad_xml">>,
                              <<"index", 3, "status_error">>, <<"cache_set", 3, "empty">> >>
        /\ ~response[p].raised
        /\ response[p].value = None
        /\ response[p].record # None

-----------------------------------------------------------------------------
(* The yearly index: irs_990._search_year_index on one streamed file.  Texts
   are sequences of characters; the file is drawn row by row, with or without
   a newline after its last row, and cut into chunks of one size *)

MaxRows == 2

\* str.split(sep) for a separator of one character
RECURSIVE Split(_, _)
Split(s, sep) ==
    IF \A i \in DOMAIN s : s[i] # sep THEN <<s>>
    ELSE LET i == CHOOSE k \in DOMAIN s : s[k] = sep /\ \A j \in 1 .. (k - 1) : s[j] # sep
         IN  <<SubSeq(s, 1, i - 1)>> \o Split(SubSeq(s, i + 1, Len(s)), sep)

\* sub in s
Contains(s, sub) ==
    \E i \in 1 .. (Len(s) - Len(sub) + 1) : SubSeq(s, i, i + Len(sub) - 1) = sub

\* The best_match a row makes
IndexMatch(parts) ==
    [year |-> 2024, object_id |-> Strip(parts[9]), zip_filename |-> Strip(parts[10]),
     tax_period |-> Strip(parts[4])]

\* The body of the while loop for one line
ScanLine(line, best_match, ein_digits) ==
    LET parts == Split(line, ",")
    IN  IF ~Contains(line, ein_digits) THEN best_match
        ELSE IF Len(parts) < 10 THEN best_match
        ELSE IF Strip(parts[3]) = ein_digits /\ Strip(parts[7]) = <<"9", "9", "0">>
        THEN IndexMatch(parts)
        ELSE best_match

\* while "\n" in buffer: line, buffer = buffer.split("\n", 1); ...
RECURSIVE ScanLines(_, _, _)
ScanLines(buffer, best_match, ein_digits) ==
    IF \A i \in DOMAIN buffer : buffer[i] # "\n"
    THEN [buffer |-> buffer, best_match |-> best_match]
    ELSE LET halves == Split(buffer, "\n")
             line == halves[1]
         IN  ScanLines(SubSeq(buffer, Len(line) + 2, Len(buffer)),
                       ScanLine(line, best_match, ein_digits), ein_digits)

\* The identifier searched for; _search_year_index takes any text
IndexEin == <<"1", "2">>

\* The rows the index files are made of: RETURN_ID, FILING_TYPE, EIN,
\* TAX_PERIOD, SUB_DATE, NAME, RETURN_TYPE, DLN, OBJECT_ID, ZIP_FILE
IndexRows ==
    LET Row(ein, type, obj) ==
            << <<"7">>, <<"E">>, ein, <<"2", "3">>, <<"d">>, <<"N">>, type, <<"D">>,
               obj, <<"z">> \o obj >>
        T990 == <<"9", "9", "0">>
    IN  { Row(IndexEin, T990, <<"a">>),
          Row(IndexEin, T990, <<"b">>),
          Row(<<" ">> \o IndexEin, T990 \o <<"\r">>, <<"c">>),
          Row(IndexEin, T990 \o <<"T">>, <<"e">>),
          Row(IndexEin \o <<"3">>, T990, <<"f">>),
          Row(<<"4", "5">>, T990, IndexEin),
          Row(<<"4", "5">>, T990, <<"g">>),
          SubSeq(Row(IndexEin, T990, <<"h">>), 1, 9) }

\* The text of a file: its rows, a newline between rows, and a newline
\* after the last row when `terminated`
RECURSIVE IndexText(_, _)
IndexText(rows, terminated) ==
    LET RECURSIVE Join(_)
        Join(parts) == IF Len(parts) = 1 THEN parts[1]
                       ELSE parts[1] \o <<",">> \o Join(Tail(parts))
    IN  IF rows = <<>> THEN <<>>
        ELSE Join(Head(rows))
                \o (IF Len(rows) > 1 \/ terminated THEN <<"\n">> ELSE <<>>)
                \o IndexText(Tail(rows), terminated)

\* resp.aiter_text() handing the text over `size` characters at a time
RECURSIVE Chunks(_, _)
Chunks(text, size) ==
    IF Len(text) <= size THEN (IF text = <<>> THEN <<>> ELSE <<text>>)
    ELSE <<SubSeq(text, 1, size)>> \o Chunks(SubSeq(text, size + 1, Len(text)), size)

ChunkSizes == {1, 7, 64}

InitIndex ==
    /\ InitCommon
    /\ quota = <<>>
    /\ pc = [p \in Procs |-> "idle"]
    /\ \E n \in 1 .. MaxRows : \E rows \in [1 .. n -> IndexRows] :
       \E terminated \in BOOLEAN : \E size \in ChunkSizes :
          req = [p \in Procs |->
                    IF p = 1
                    THEN [kind |-> "search_year_index", eins |-> <<IndexEin>>,
                          rows |-> rows, terminated |-> terminated,
                          chunks |-> Chunks(IndexText(rows, terminated), size)]
                    ELSE NoRequest]

\* client.stream("GET", url): best_match = None, buffer = ""
index_stream(p) ==
    /\ pc[p] = "idle"
    /\ req[p].kind = "search_year_index"
    /\ task' = [task EXCEPT ![p] = <<[tpc |-> "stream", chunk |-> 0, buffer |-> <<>>,
                                      best_match |-> None]>>]
    /\ pc' = [pc EXCEPT ![p] = "index"]
    /\ UNCHANGED <<cache, quota, now, ticks, api_keys, req, rlcall, calls, batch, response,
                   accepted, denied, effect, debits>>

\* One turn of `async for chunk in resp.aiter_text()`
index_chunk(p) ==
    /\ pc[p] = "index"
    /\ task[p][1].chunk < Len(req[p].chunks)
    /\ LET t == task[p][1]
           scanned == ScanLines(t.buffer \o req[p].chunks[t.chunk + 1], t.best_match,
                                req[p].eins[1])
       IN  task' = [task EXCEPT ![p] =
                       <<[t EXCEPT !.chunk = @ + 1, !.buffer = scanned.buffer,
                                   !.best_match = scanned.best_match]>>]
    /\ UNCHANGED <<cache, quota, now, ticks, api_keys, pc, req, rlcall, calls, batch, response,
                   accepted, denied, effect, debits>>

\* return best_match, once the stream is exhausted
index_return(p) ==
    /\ pc[p] = "index"
    /\ task[p][1].chunk = Len(req[p].chunks)
    /\ task' = [task EXCEPT ![p] = <<[task[p][1] EXCEPT !.tpc = "done"]>>]
    /\ response' = [response EXCEPT ![p] = [value |-> task[p][1].best_match]]
    /\ pc' = [pc EXCEPT ![p] = "done"]
    /\ UNCHANGED <<cache, quota, now, ticks, api_keys, req, rlcall, calls, batch,
                   accepted, denied, effect, debits>>

NextIndex ==
    \E p \in Procs :
        \/ index_stream(p)
        \/ index_chunk(p)
        \/ index_return(p)

SpecIndex == InitIndex /\ [][NextIndex]_vars

\* The rows of the file, in order, that make a match: ten fields, the
\* identifier field equal to the identifier and the return type equal to 990
MatchingRows(rows, ein_digits) ==
    {i \in DOMAIN rows :
        /\ Len(rows[i]) >= 10
        /\ Strip(rows[i][3]) = ein_digits
        /\ Strip(rows[i][7]) = <<"9", "9", "0">>}

(* C25: for every index content and every chunking, _search_year_index
   returns the last row whose identifier field equals the identifier and
   whose return type is 990, None when there is no such row, whether or not
   the final row ends with a newline *)
C25_LastMatchingRowReturned ==
    \A p \in Procs :
        (req[p].kind = "search_year_index" /\ pc[p] = "done") =>
            LET rows == req[p].rows
                hits == MatchingRows(rows, req[p].eins[1])
            IN  IF hits = {} THEN response[p].value = None
                ELSE LET last == CHOOSE i \in hits : \A j \in hits : j <= i
                     IN  response[p].value = IndexMatch(rows[last])

\* The scan of a file whose last row ends with a newline finds the last
\* matching row
TerminatedFilesScanned ==
    \A p \in Procs :
        (req[p].kind = "search_year_index" /\ pc[p] = "done" /\ req[p].terminated) =>
            LET rows == req[p].rows
                hits == MatchingRows(rows, req[p].eins[1])
            IN  IF hits = {} THEN response[p].value = None
                ELSE LET last == CHOOSE i \in hits : \A j \in hits : j <= i
                     IN  response[p].value = IndexMatch(rows[last])

-----------------------------------------------------------------------------
(* The registry adapter and the Cache Store inside the lookups of Spec *)

(* C27: fetch_organization issues exactly one request and never raises: for
   every provider outcome, a body that is not valid JSON included, the
   lookup goes on with whatever it returned *)
C27_ProviderNeverRaises ==
    \A p \in Procs : \A i \in DOMAIN task[p] :
        (req[p].kind \in {"single", "public", "batch"}
            /\ Did(task[p][i], "fetch_organization")) =>
            LET t == task[p][i]
            IN  /\ Cardinality({k \in DOMAIN t.io : t.io[k] = "fetch_organization"}) = 1
                /\ t.error # RaisedError("JSONDecodeError")

(* C28: a Cache Store failure during a single lookup does not fail the
   lookup: when the registry yielded an organization the caller still
   receives the record *)
C28_CacheFailureInvisible ==
    \A p \in Procs :
        (req[p].kind \in {"single", "public"} /\ pc[p] = "done" /\ task[p] # <<>>
            /\ Did(task[p][1], "get_filing_data")) =>
            /\ task[p][1].error # RaisedError("RedisError")
            /\ response[p].status = 200

-----------------------------------------------------------------------------
(* The jurisdiction scrapers: state_scrapers/california.py check_california
   and state_scrapers/new_york.py check_new_york, called up to MaxCalls times
   in a row for one identifier against one Redis, the clock advancing by
   about one TTL in between.  What each HTTP request meets is drawn when the
   request is made *)

\* CACHE_TTL, the same in california.py and in new_york.py
CACHE_TTL == 7 * 24 * 3600

StateCacheKey(label, digits) == <<"state:", label, ":">> \o digits

\* Mutant: `if cached:`, which a stored {} does not pass
CachedIsNotNone_Truthy(data) == data # None /\ data[1] # None

\* `cached is not None`, of what cache_get makes of the stored text
CachedIsNotNone(data) == data # None

ASP_TOKEN_FIELDS == <<"__VIEWSTATE", "__VIEWSTATEGENERATOR", "__EVENTVALIDATION">>

\* Mutant: the tokens that were found, also when one is missing
_extract_asp_tokens_Partial(inputs) ==
    LET found == {n \in DOMAIN inputs : inputs[n] # ""}
    IN  [n \in found |-> inputs[n]]

\* _extract_asp_tokens: `inputs` maps the name of each <input> of the page
\* to its value attribute; None when a field is missing or has no value
_extract_asp_tokens(inputs) ==
    IF \E i \in DOMAIN ASP_TOKEN_FIELDS :
          \/ ASP_TOKEN_FIELDS[i] \notin DOMAIN inputs
          \/ inputs[ASP_TOKEN_FIELDS[i]] = ""
    THEN None
    ELSE [i \in {ASP_TOKEN_FIELDS[k] : k \in DOMAIN ASP_TOKEN_FIELDS} |-> inputs[i]]

\* re.sub(r"\D", "", text)
RECURSIVE OnlyDigits(_)
OnlyDigits(text) ==
    IF text = <<>> THEN <<>>
    ELSE IF Head(text) \in Digits THEN <<Head(text)>> \o OnlyDigits(Tail(text))
    ELSE OnlyDigits(Tail(text))

\* parse_ca_results of a page [table, rows]: rows are the rows after the
\* header, each the stripped texts of its cells
parse_ca_results(page, ein_digits) ==
    LET fein_match(row) == \E k \in DOMAIN row : OnlyDigits(row[k]) = ein_digits
        hits == {i \in DOMAIN page.rows : Len(page.rows[i]) >= 4 /\ fein_match(page.rows[i])}
    IN  IF ~page.table \/ hits = {} THEN None
        ELSE LET texts == page.rows[CHOOSE i \in hits : \A j \in hits : i <= j]
             IN  [state |-> "CA", status |-> texts[4],
                  registration_number |-> IF texts[1] # <<>> THEN texts[1] ELSE None]

\* parse_ny_results of a page [table, rows]
parse_ny_results(page, ein_digits) ==
    LET hits == {i \in DOMAIN page.rows :
                    /\ Len(page.rows[i]) >= 4
                    /\ Strip(RemoveDashes(page.rows[i][3])) = ein_digits}
    IN  IF ~page.table \/ hits = {} THEN None
        ELSE LET texts == page.rows[CHOOSE i \in hits : \A j \in hits : i <= j]
             IN  [state |-> "NY",
                  status |-> IF texts[4] # <<>> THEN <<"Registered (">> \o texts[4] \o <<")">>
                             ELSE <<"Registered">>,
                  registration_number |-> texts[2]]

\* What an HTTP request of a scraper meets
HttpStatuses == {"200", "500", "conn_error"}

\* The search pages the California site answers the GET with
TokenPages ==
    LET Values == [n \in {ASP_TOKEN_FIELDS[k] : k \in DOMAIN ASP_TOKEN_FIELDS} |->
                      {"", "v:" \o n}]
        Present == SUBSET {ASP_TOKEN_FIELDS[k] : k \in DOMAIN ASP_TOKEN_FIELDS}
    IN  UNION {{f \in [names -> {"", "v:__VIEWSTATE", "v:__VIEWSTATEGENERATOR",
                                 "v:__EVENTVALIDATION"}] :
                   \A n \in names : f[n] \in Values[n]} : names \in Present}

\* The result pages a site answers the search with
ResultPages(label, ein_digits) ==
    LET other == <<"1", "3", "1", "8", "3", "7", "4", "1", "8">>
        Row(ein) ==
            IF label = "CA"
            THEN << <<"C", "T", "1">>, <<"C", "h">>, <<"O", "r", "g">>, <<"C", "u", "r">>,
                    <<"L", "A">>, <<"C", "A">>, Dashed(ein) >>
            ELSE << <<"O", "r", "g">>, <<"0", "1">>, Dashed(ein), <<"N", "F", "P">>,
                    <<"N", "Y">>, <<"N", "Y">> >>
    IN  { [table |-> FALSE, rows |-> <<>>],
          [table |-> TRUE, rows |-> <<>>],
          [table |-> TRUE, rows |-> <<Row(other)>>],
          [table |-> TRUE, rows |-> <<Row(other), Row(ein_digits)>>] }

InitStates ==
    /\ InitCommon
    /\ quota = <<>>
    /\ pc = [p \in Procs |-> "idle"]
    /\ \E label \in {"CA", "NY"} :
          req = [p \in Procs |->
                    IF p = 1 THEN [kind |-> "check_state", eins |-> <<EinA>>, label |-> label]
                    ELSE NoRequest]

\* The call of a scraper that process p is in, or has made last
StateCall(p) == task[p][Len(task[p])]

\* cached = await cache_get(cache_key) and the hit branch
state_cache_get(p) ==
    /\ pc[p] \in {"idle", "done"}
    /\ req[p].kind = "check_state"
    /\ calls[p] < MaxCalls
    /\ calls' = [calls EXCEPT ![p] = @ + 1]
    /\ LET data == RedisGet(cache, StateCacheKey(req[p].label, req[p].eins[1]))
           call == [tpc |-> "done", hit |-> TRUE, tokens |-> None, result |-> None,
                    io |-> <<>>, start |-> now, stored_at |-> -1]
       IN  IF CachedIsNotNone(data)
           THEN /\ task' = [task EXCEPT ![p] = Append(@, call)]
                /\ response' = [response EXCEPT ![p] = [raised |-> FALSE, value |-> data[1]]]
                /\ pc' = [pc EXCEPT ![p] = "done"]
           ELSE /\ task' = [task EXCEPT ![p] =
                               Append(@, [call EXCEPT !.hit = FALSE,
                                             !.tpc = IF req[p].label = "CA" THEN "get"
                                                     ELSE "post"])]
                /\ response' = [response EXCEPT ![p] = None]
                /\ pc' = [pc EXCEPT ![p] = "scrape"]
    /\ UNCHANGED <<cache, quota, now, ticks, api_keys, req, rlcall, batch,
                   accepted, denied, effect, debits>>

\* california._scrape, step 1: get_resp = await client.get(SEARCH_URL) and
\* tokens = _extract_asp_tokens(get_resp.text)
ca_scrape_get(p) ==
    /\ pc[p] = "scrape"
    /\ StateCall(p).tpc = "get"
    /\ \E status \in HttpStatuses :
       \E inputs \in IF status = "200" THEN TokenPages ELSE {<<>>} :
          LET c == [StateCall(p) EXCEPT
                       !.io = Append(@, [method |-> "GET", status |-> status,
                                         inputs |-> inputs])]
              tokens == IF status = "200" THEN _extract_asp_tokens(inputs) ELSE None
          IN  task' = [task EXCEPT ![p][Len(task[p])] =
                          IF tokens = None THEN [c EXCEPT !.tpc = "cache_set"]
                          ELSE [c EXCEPT !.tpc = "post", !.tokens = tokens]]
    /\ UNCHANGED <<cache, quota, now, ticks, api_keys, pc, req, rlcall, calls, batch, response,
                   accepted, denied, effect, debits>>

\* california._scrape, step 2, and new_york._scrape: the POST of the search
\* form and the parse of the answer
scrape_post(p) ==
    /\ pc[p] = "scrape"
    /\ StateCall(p).tpc = "post"
    /\ LET ein_digits == req[p].eins[1]
           label == req[p].label
           form == IF label = "CA"
                   THEN StateCall(p).tokens
                            @@ [t_web_lookup__federal_id |-> ein_digits,
                                sch_button |-> "Search"]
                   ELSE [num1 |-> SubSeq(ein_digits, 1, 2),
                         num2 |-> SubSeq(ein_digits, 3, Len(ein_digits)),
                         ein |-> ein_digits]
       IN  \E status \in HttpStatuses :
           \E page \in IF status = "200" THEN ResultPages(label, ein_digits)
                       ELSE {[table |-> FALSE, rows |-> <<>>]} :
              LET result == IF status # "200" THEN None
                            ELSE IF label = "CA" THEN parse_ca_results(page, ein_digits)
                            ELSE parse_ny_results(page, ein_digits)
              IN  task' = [task EXCEPT ![p][Len(task[p])] =
                              [StateCall(p) EXCEPT
                                  !.tpc = "cache_set", !.result = result,
                                  !.io = Append(@, [method |-> "POST", status |-> status,
                                                    form |-> form, table |-> page.table])]]
    /\ UNCHANGED <<cache, quota, now, ticks, api_keys, pc, req, rlcall, calls, batch, response,
                   accepted, denied, effect, debits>>

\* await cache_set(cache_key, result or {}, CACHE_TTL); return result
state_cache_set(p) ==
    /\ pc[p] = "scrape"
    /\ StateCall(p).tpc = "cache_set"
    /\ cache' = RedisSet(cache, StateCacheKey(req[p].label, req[p].eins[1]),
                         Dumps(StateCall(p).result), CACHE_TTL)
    /\ task' = [task EXCEPT ![p][Len(task[p])] =
                   [StateCall(p) EXCEPT !.tpc = "done", !.stored_at = now]]
    /\ response' = [response EXCEPT ![p] =
                       [raised |-> FALSE, value |-> StateCall(p).result]]
    /\ pc' = [pc EXCEPT ![p] = "done"]
    /\ UNCHANGED <<quota, now, ticks, api_keys, req, rlcall, calls, batch,
                   accepted, denied, effect, debits>>

\* The clock advances by one second less than the TTL, or by the TTL
StateTick ==
    /\ ticks < MaxTicks
    /\ \E d \in {CACHE_TTL - 1, CACHE_TTL} :
          /\ now' = now + d
          /\ cache' = RedisAfter(cache, d)
    /\ ticks' = ticks + 1
    /\ UNCHANGED <<quota, pc, req, rlcall, calls, batch, task, response,
                   accepted, denied, effect, debits, api_keys>>

NextStates ==
    \/ \E p \in Procs :
          \/ state_cache_get(p)
          \/ ca_scrape_get(p)
          \/ scrape_post(p)
          \/ state_cache_set(p)
    \/ StateTick

SpecStates == InitStates /\ [][NextStates]_vars

\* The call met a non-success HTTP response at some step, or its result
\* page had no table
ScrapeFailed(c) ==
    /\ ~c.hit
    /\ \E j \in DOMAIN c.io :
          \/ c.io[j].status # "200"
          \/ c.io[j].method = "POST" /\ ~c.io[j].table

(* C29: on a cache miss, a scraper that met a non-success HTTP response at
   any step, or found no table, returns absent without raising and stores the
   empty sentinel under state:<jurisdiction>:<identifier> with its TTL; the
   next call within the TTL returns absent without any HTTP request *)
C29_FailedScrapeCachedAsAbsent ==
    \A p \in Procs :
        req[p].kind = "check_state" =>
            \A k \in DOMAIN task[p] :
                LET c == task[p][k]
                    key == StateCacheKey(req[p].label, req[p].eins[1])
                IN  (ScrapeFailed(c) /\ c.tpc = "done") =>
                        /\ c.result = None
                        /\ k = Len(task[p]) =>
                              response[p] = [raised |-> FALSE, value |-> None]
                        /\ now = c.stored_at =>
                              /\ RedisHas(cache, key)
                              /\ cache[key] = [val |-> Dumps(None), ttl |-> 7 * 24 * 3600]
                        /\ (k < Len(task[p])
                              /\ task[p][k + 1].start - c.stored_at < 7 * 24 * 3600) =>
                              /\ task[p][k + 1].hit
                              /\ task[p][k + 1].io = <<>>
                              /\ task[p][k + 1].tpc = "done"
                              /\ k + 1 = Len(task[p]) =>
                                    response[p] = [raised |-> FALSE, value |-> None]

\* C29 witness: the search-page GET answered 500, the sentinel was stored,
\* and the call made one second before the TTL ran out was answered absent
\* from the cache without a request
C29_Witness ==
    \E p \in Procs :
        /\ req[p].kind = "check_state" /\ req[p].label = "CA"
        /\ Len(task[p]) = 2
        /\ ScrapeFailed(task[p][1])
        /\ task[p][1].io = <<[method |-> "GET", status |-> "500", inputs |-> <<>>]>>
        /\ task[p][2].start - task[p][1].stored_at = 7 * 24 * 3600 - 1
        /\ task[p][2].hit /\ task[p][2].io = <<>>
        /\ pc[p] = "done"
        /\ response[p] = [raised |-> FALSE, value |-> None]

(* C30: the California scraper submits the search form only after the
   search-page GET returned success and all three session tokens were
   extracted from it, and the form carries exactly those tokens; if the GET
   fails or a token is missing it returns absent without submitting the form *)
C30_FormOnlyWithAllTokens ==
    \A p \in Procs :
        (req[p].kind = "check_state" /\ req[p].label = "CA") =>
            \A k \in DOMAIN task[p] :
                LET c == task[p][k]
                    names == {ASP_TOKEN_FIELDS[i] : i \in DOMAIN ASP_TOKEN_FIELDS}
                    complete(inputs) ==
                        \A n \in names : n \in DOMAIN inputs /\ inputs[n] # ""
                IN  /\ \A j \in DOMAIN c.io :
                          c.io[j].method = "POST" =>
                              /\ j = 2
                              /\ c.io[1].method = "GET"
                              /\ c.io[1].status = "200"
                              /\ complete(c.io[1].inputs)
                              /\ DOMAIN c.io[j].form =
                                    names \cup {"t_web_lookup__federal_id", "sch_button"}
                              /\ \A n \in names : c.io[j].form[n] = c.io[1].inputs[n]
                              /\ c.io[j].form.t_web_lookup__federal_id = req[p].eins[1]
                    /\ (c.io # <<>>
                          /\ (c.io[1].status # "200" \/ ~complete(c.io[1].inputs))) =>
                              /\ Len(c.io) = 1
                              /\ c.tpc \in {"cache_set", "done"}
                              /\ c.result = None
                              /\ (c.tpc = "done" /\ k = Len(task[p])) =>
                                    response[p] = [raised |-> FALSE, value |-> None]

\* C30 witness: the GET answered with all three tokens, the form was
\* submitted with them and the registration was found
C30_Witness ==
    \E p \in Procs :
        /\ req[p].kind = "check_state" /\ req[p].label = "CA"
        /\ pc[p] = "done"
        /\ Len(task[p]) = 1
        /\ Len(task[p][1].io) = 2
        /\ task[p][1].io[1].status = "200"
        /\ task[p][1].io[2].method = "POST"
        /\ task[p][1].io[2].form["__VIEWSTATE"] = "v:__VIEWSTATE"
        /\ task[p][1].io[2].form["__EVENTVALIDATION"] = "v:__EVENTVALIDATION"
        /\ response[p].value # None
        /\ response[p].value.state = "CA"

-----------------------------------------------------------------------------
(* The quota counters' expiry, checked under SpecQuota *)

(* C31: after any completed sequence or interleaving of single-unit and
   batched increments, accepted or rejected, every existing counter key has
   the expiry of 35 days; a key is without expiry only while the call that
   created it has not yet reached its expire *)
C31_CountersExpire ==
    \A k \in DOMAIN quota :
        /\ quota[k].ttl \in {NoTTL, 35 * 24 * 3600}
        /\ quota[k].ttl = NoTTL =>
              \E p \in Procs : pc[p] = "rl_expire" /\ rlcall[p].key = k
        /\ LedgerQuiescent => quota[k].ttl = 35 * 24 * 3600

\* C31 witness: both callers are done, a batch created the counter, a batch
\* was rejected and rolled back, and the counter carries the expiry
C31_Witness ==
    /\ LedgerQuiescent
    /\ \A p \in Procs : calls[p] = MaxCalls
    /\ \E p \in Procs : debits[p][1] > 1 /\ \A q \in Procs \ {p} : Len(debits[q]) = MaxCalls
    /\ denied.batch = 1
    /\ accepted > 0
    /\ RedisHas(quota, RateLimitKey(api_key_info))
    /\ quota[RateLimitKey(api_key_info)].ttl = 35 * 24 * 3600

-----------------------------------------------------------------------------
(* Key provisioning: routes/billing.py create_free_key, the checkout-completed
   webhook and get_checkout_key.  NumProcs concurrent requests, each caller
   making up to MaxCalls of them, against one table api_keys and one Redis.
   Every statement sent to Postgres and every Redis command is one step *)

\* `if count >= 3`
FreeKeyLimit == 3

\* The address the free keys are asked for, after email_must_be_valid
FreeEmail == "test@example.com"

\* The checkout session the provider reports as completed
CheckoutSession ==
    [id |-> "cs_test_123", customer |-> "cus_123", subscription |-> "sub_123",
     customer_details |-> [email |-> "buyer@example.com"], metadata |-> [plan |-> "pro"]]

\* f"npv_{secrets.token_hex(24)}": a key no other call draws
RawKey(p, n) == <<"npv_", p, n>>

\* A row of api_keys
KeyRow(raw_key, email, plan, monthly_limit, customer_id, subscription_id) ==
    [key_hash |-> <<"sha256", raw_key>>, email |-> email, plan |-> plan,
     monthly_limit |-> monthly_limit, stripe_customer_id |-> customer_id,
     stripe_subscription_id |-> subscription_id]

\* SELECT COUNT(*) FROM api_keys WHERE email = $1 AND plan = 'free'
CountFreeKeys(email) ==
    Cardinality({i \in DOMAIN api_keys :
                    api_keys[i].email = email /\ api_keys[i].plan = "free"})

\* SELECT id FROM api_keys WHERE stripe_customer_id = $1 AND
\* stripe_subscription_id = $2
ExistingKey(customer_id, subscription_id) ==
    \E i \in DOMAIN api_keys :
        /\ api_keys[i].stripe_customer_id = customer_id
        /\ api_keys[i].stripe_subscription_id = subscription_id

CheckoutKey(session_id) == <<"checkout_key:", session_id>>

\* r.delete(key)
RedisDelete(store, key) == [k \in DOMAIN store \ {key} |-> store[k]]

InitBilling ==
    /\ InitCommon
    /\ quota = <<>>
    /\ pc = [p \in Procs |-> "idle"]
    /\ req = [p \in Procs |-> NoRequest]

\* create_free_key up to its INSERT: the count and the test against the limit
create_free_key_count(p) ==
    /\ pc[p] \in {"idle", "done"}
    /\ calls[p] < MaxCalls
    /\ calls' = [calls EXCEPT ![p] = @ + 1]
    /\ req' = [req EXCEPT ![p] = [kind |-> "create_free_key", eins |-> <<>>,
                                  email |-> FreeEmail]]
    /\ LET count == CountFreeKeys(FreeEmail)
       IN  /\ task' = [task EXCEPT ![p] =
                          <<[count |-> count, raw_key |-> RawKey(p, calls[p] + 1)]>>]
           /\ IF count >= FreeKeyLimit
              THEN /\ response' = [response EXCEPT ![p] =
                          [status |-> 429,
                           detail |-> "Maximum of 3 free API keys per email address."]]
                   /\ pc' = [pc EXCEPT ![p] = "done"]
              ELSE /\ response' = [response EXCEPT ![p] = None]
                   /\ pc' = [pc EXCEPT ![p] = "free_insert"]
    /\ UNCHANGED <<cache, quota, now, ticks, api_keys, rlcall, batch,
                   accepted, denied, effect, debits>>

\* INSERT INTO api_keys ... VALUES (..., 'free', 100) and the response
create_free_key_insert(p) ==
    /\ pc[p] = "free_insert"
    /\ api_keys' = Append(api_keys, KeyRow(task[p][1].raw_key, req[p].email, "free", 100,
                                           "", ""))
    /\ response' = [response EXCEPT ![p] =
                       [status |-> 200, api_key |-> task[p][1].raw_key, plan |-> "free",
                        monthly_limit |-> 100]]
    /\ pc' = [pc EXCEPT ![p] = "done"]
    /\ UNCHANGED <<cache, quota, now, ticks, req, rlcall, calls, batch, task,
                   accepted, denied, effect, debits>>

\* stripe_webhook with a checkout.session.completed event, up to the INSERT
\* of _handle_checkout_completed: the idempotency check
handle_checkout_completed_select(p) ==
    /\ pc[p] \in {"idle", "done"}
    /\ calls[p] < MaxCalls
    /\ calls' = [calls EXCEPT ![p] = @ + 1]
    /\ req' = [req EXCEPT ![p] = [kind |-> "checkout_completed", eins |-> <<>>,
                                  session |-> CheckoutSession]]
    /\ task' = [task EXCEPT ![p] = <<[count |-> 0, raw_key |-> RawKey(p, calls[p] + 1)]>>]
    /\ IF ExistingKey(CheckoutSession.customer, CheckoutSession.subscription)
       THEN /\ response' = [response EXCEPT ![p] = [status |-> 200, content |-> "ok"]]
            /\ pc' = [pc EXCEPT ![p] = "done"]
       ELSE /\ response' = [response EXCEPT ![p] = None]
            /\ pc' = [pc EXCEPT ![p] = "checkout_insert"]
    /\ UNCHANGED <<cache, quota, now, ticks, api_keys, rlcall, batch,
                   accepted, denied, effect, debits>>

\* INSERT INTO api_keys ... with the plan's limit, the customer and the
\* subscription
handle_checkout_completed_insert(p) ==
    /\ pc[p] = "checkout_insert"
    /\ LET session == req[p].session
       IN  api_keys' = Append(api_keys,
                              KeyRow(task[p][1].raw_key, session.customer_details.email,
                                     session.metadata.plan, 1000, session.customer,
                                     session.subscription))
    /\ pc' = [pc EXCEPT ![p] = "checkout_set"]
    /\ UNCHANGED <<cache, quota, now, ticks, req, rlcall, calls, batch, task, response,
                   accepted, denied, effect, debits>>

\* await r.set(f"checkout_key:{session_id}", raw_key, ex=3600)
handle_checkout_completed_set(p) ==
    /\ pc[p] = "checkout_set"
    /\ cache' = RedisSet(cache, CheckoutKey(req[p].session.id), task[p][1].raw_key, 3600)
    /\ response' = [response EXCEPT ![p] = [status |-> 200, content |-> "ok"]]
    /\ pc' = [pc EXCEPT ![p] = "done"]
    /\ UNCHANGED <<quota, now, ticks, api_keys, req, rlcall, calls, batch, task,
                   accepted, denied, effect, debits>>

\* raw_key = await r.get(f"checkout_key:{session_id}") and the 404
get_checkout_key_get(p) ==
    /\ pc[p] \in {"idle", "done"}
    /\ calls[p] < MaxCalls
    /\ calls' = [calls EXCEPT ![p] = @ + 1]
    /\ req' = [req EXCEPT ![p] = [kind |-> "get_checkout_key", eins |-> <<>>,
                                  session_id |-> CheckoutSession.id]]
    /\ LET raw_key == RedisGet(cache, CheckoutKey(CheckoutSession.id))
       IN  /\ task' = [task EXCEPT ![p] = <<[count |-> 0, raw_key |-> raw_key]>>]
           /\ IF raw_key = None
              THEN /\ response' = [response EXCEPT ![p] =
                          [status |-> 404,
                           detail |-> "Key not ready yet or already retrieved."]]
                   /\ pc' = [pc EXCEPT ![p] = "done"]
              ELSE /\ response' = [response EXCEPT ![p] = None]
                   /\ pc' = [pc EXCEPT ![p] = "checkout_delete"]
    /\ UNCHANGED <<cache, quota, now, ticks, api_keys, rlcall, batch,
                   accepted, denied, effect, debits>>

\* await r.delete(f"checkout_key:{session_id}"); return {"api_key": raw_key}
get_checkout_key_delete(p) ==
    /\ pc[p] = "checkout_delete"
    /\ cache' = RedisDelete(cache, CheckoutKey(req[p].session_id))
    /\ response' = [response EXCEPT ![p] = [status |-> 200, api_key |-> task[p][1].raw_key]]
    /\ pc' = [pc EXCEPT ![p] = "done"]
    /\ UNCHANGED <<quota, now, ticks, api_keys, req, rlcall, calls, batch, task,
                   accepted, denied, effect, debits>>

NextBilling ==
    \E p \in Procs :
        \/ create_free_key_count(p)
        \/ create_free_key_insert(p)
        \/ handle_checkout_completed_select(p)
        \/ handle_checkout_completed_insert(p)
        \/ handle_checkout_completed_set(p)
        \/ get_checkout_key_get(p)
        \/ get_checkout_key_delete(p)

SpecBilling == InitBilling /\ [][NextBilling]_vars

(* C32: after any sequence or interleaving of create_free_key calls the
   number of free keys stored for one address never exceeds 3, and a call made
   when 3 exist is rejected and inserts nothing *)
C32_AtMostThreeFreeKeys ==
    /\ CountFreeKeys(FreeEmail) <= 3
    /\ \A p \in Procs :
          (req[p].kind = "create_free_key" /\ task[p][1].count >= 3) =>
              /\ pc[p] = "done"
              /\ response[p].status = 429

(* C33: for one checkout session id at most one get_checkout_key call ever
   returns the API key, also when calls run concurrently *)
C33_KeyRetrievedOnce ==
    \A p, q \in Procs :
        (/\ p # q
         /\ req[p].kind = "get_checkout_key" /\ req[q].kind = "get_checkout_key"
         /\ pc[p] = "done" /\ pc[q] = "done"
         /\ response[p].status = 200) =>
            ~(response[q].status = 200 /\ response[q].api_key = response[p].api_key)

(* C34: handling the checkout-completed event for the same customer and
   subscription any number of times, sequentially or concurrently, creates at
   most one row, and a replay does not overwrite the key stored under
   checkout_key:<session> *)
C34_CheckoutHandledOnce ==
    /\ [](Cardinality({i \in DOMAIN api_keys :
                          /\ api_keys[i].stripe_customer_id = CheckoutSession.customer
                          /\ api_keys[i].stripe_subscription_id =
                                CheckoutSession.subscription}) <= 1)
    /\ [][LET key == CheckoutKey(CheckoutSession.id)
          IN  (RedisHas(cache, key) /\ RedisHas(cache', key)) =>
                  cache'[key].val = cache[key].val]_vars

-----------------------------------------------------------------------------
(* The California result table: parse_ca_results on one page, for pages of
   up to MaxRows rows *)

\* The rows of the result pages: Registration Number, Record Type,
\* Organization Name, Registry Status, City, State, FEIN
CaRows(ein_digits) ==
    LET other == <<"1", "3", "1", "8", "3", "7", "4", "1", "8">>
        Row(reg, status, fein) ==
            << reg, <<"C", "h">>, <<"O", "r", "g">>, status, <<"L", "A">>, <<"C", "A">>,
               fein >>
        Regs == { <<"C", "T", "-", "7">>, <<>>, <<"C", "T", "-">> \o ein_digits }
        Feins == { ein_digits, Dashed(ein_digits), other }
    IN  {Row(reg, <<"C", "u", "r">>, fein) : reg \in Regs, fein \in Feins}
            \cup {Row(<<"C", "T", "-", "8">>, <<"D", "e", "l">>, ein_digits),
                  << <<"C", "T", "-", "9">>, <<"C", "h">>, ein_digits >>}

InitCaParse ==
    /\ InitCommon
    /\ quota = <<>>
    /\ pc = [p \in Procs |-> "idle"]
    /\ \E n \in 0 .. MaxRows : \E rows \in [1 .. n -> CaRows(EinA)] :
       \E table \in BOOLEAN :
          req = [p \in Procs |->
                    IF p = 1
                    THEN [kind |-> "parse_ca_results", eins |-> <<EinA>>,
                          page |-> [table |-> table, rows |-> rows]]
                    ELSE NoRequest]

CallParseCaResults(p) ==
    /\ pc[p] = "idle"
    /\ req[p].kind = "parse_ca_results"
    /\ response' = [response EXCEPT ![p] =
                       [value |-> parse_ca_results(req[p].page, req[p].eins[1])]]
    /\ pc' = [pc EXCEPT ![p] = "done"]
    /\ UNCHANGED <<cache, quota, now, ticks, api_keys, req, rlcall, calls, batch, task,
                   accepted, denied, effect, debits>>

NextCaParse == \E p \in Procs : CallParseCaResults(p)

SpecCaParse == InitCaParse /\ [][NextCaParse]_vars

(* C35: parse_ca_results returns a registration only from a table row whose
   FEIN column, after stripping non-digit characters, equals the input
   identifier; a row in which only another column reduces to the same digits
   is not a match *)
C35_MatchOnFeinColumnOnly ==
    \A p \in Procs :
        (req[p].kind = "parse_ca_results" /\ pc[p] = "done"
            /\ response[p].value # None) =>
            \E i \in DOMAIN req[p].page.rows :
                LET row == req[p].page.rows[i]
                IN  /\ Len(row) >= 7
                    /\ OnlyDigits(row[7]) = req[p].eins[1]
                    /\ response[p].value.status = row[4]

-----------------------------------------------------------------------------
(* Rejections of the quota ledger, checked under SpecQuota *)

\* The usage accepted so far: the units of the calls that returned their
\* count, and of the calls whose increment stayed within the limit and that
\* have only their expire left
AcceptedUsage ==
    LET RECURSIVE Pending(_)
        Pending(ps) ==
            IF ps = {} THEN 0
            ELSE LET q == CHOOSE x \in ps : TRUE
                 IN  (IF pc[q] = "rl_expire"
                         /\ rlcall[q].new_total <= api_key_info.monthly_limit
                      THEN rlcall[q].count ELSE 0) + Pending(ps \ {q})
    IN  accepted + Pending(Procs)

(* C36: an increment of n, single-unit or batched, is rejected only if the
   usage accepted so far plus n exceeds the limit, also when it runs
   concurrently with a batched increment that is itself rejected and rolled
   back.  Stated for the calls made while no single-unit call has been
   rejected, so that the counter holds no unit left behind by one *)
C36_RejectedOnlyOverLimit ==
    [][\A p \in Procs :
          (/\ denied.single = 0
           /\ pc[p] = "rl_incr"
           /\ pc'[p] \in {"rl_decr", "http429"}) =>
              AcceptedUsage + rlcall[p].count > api_key_info.monthly_limit]_vars

-----------------------------------------------------------------------------
(* The lookup cache under concurrent lookups, checked under Spec *)

(* C37: once a positive record is cached under verify:<digits>, no lookup,
   single, public or batch, also one that started before the entry was
   written, replaces it with the not-found sentinel before the entry expires *)
C37_PositiveEntryNotReplaced ==
    [][\A k \in DOMAIN cache :
          (~IsNotFound(cache[k].val) /\ k \in DOMAIN cache') =>
              ~IsNotFound(cache'[k].val)]_vars

-----------------------------------------------------------------------------
(* Malformed identifiers at the three entrypoints, checked under Spec *)

\* The request carries a malformed identifier and is not an oversize batch
Malformed(r) ==
    /\ r.kind \in {"single", "public", "batch"}
    /\ \E k \in DOMAIN r.eins : validate_ein(r.eins[k]) = None
    /\ ~(r.kind = "batch" /\ BatchTooLarge(r.eins))

(* C38: on each of the three entrypoints a request carrying a malformed
   identifier is rejected with the invalid-identifier error without changing
   any quota or rate-limit counter, without any cache access and without any
   source fetch; in a batch one malformed identifier rejects the whole batch *)
C38_MalformedRejectedWithoutEffect ==
    /\ [](\A p \in Procs :
            (Malformed(req[p]) /\ pc[p] \in {"done", "http429"}) =>
                response[p] = InvalidEinResponse)
    /\ [][\A p \in Procs :
            (Malformed(req'[p]) /\ pc'[p] # pc[p]) =>
                /\ quota' = quota
                /\ cache' = cache
                /\ task'[p] = <<>>]_vars

====
